---- MODULE Spec2Model ----
(***************************************************************************)
(* Model of the presentation protocol of mina-attestations:                *)
(* context derivation (src/src/context.ts) and the request / prepare /     *)
(* finalize / verify lifecycle (src/src/index.ts).                         *)
(*                                                                         *)
(* Hashes are modelled as collision-free: a digest is the tagged tuple of  *)
(* what was hashed.  A proof is modelled as unforgeable: it is the record  *)
(* of the statement (verification key, public input, public output) that   *)
(* the backend proved.                                                     *)
(***************************************************************************)
EXTENDS Integers, Sequences, FiniteSets, TLC

VARIABLES request, prepared, prepCall, presentation, tampered, last, d1, d2,
          pick, pickPrepared, validated, original, wire, parsedRequest, decoded,
          entropy, built, prepares, subject, compiledPrograms, verdicts,
          numeric, openRequests, issued, calls, nullifiers

vars == <<request, prepared, prepCall, presentation, tampered, last, d1, d2,
          pick, pickPrepared, validated, original, wire, parsedRequest, decoded,
          entropy, built, prepares, subject,
          compiledPrograms, verdicts, numeric, openRequests, issued, calls,
          nullifiers>>

protocolVars == <<request, prepared, prepCall, presentation, tampered, last>>

ctxVars == <<d1, d2>>

pickVars == <<pick, pickPrepared, validated>>

jsonVars == <<original, wire, parsedRequest, decoded>>

runVars == <<entropy, built, prepares>>

verifyVars == <<subject, compiledPrograms, verdicts>>

numericVars == <<numeric>>

demoVars == <<openRequests, issued, calls, nullifiers>>

(***************************************************************************)
(* Bounds of the model                                                     *)
(***************************************************************************)
\* a presentation is tampered with at most MaxTamper times on the wire
MaxTamper == 1

\* a wallet hands at most MaxCredentials credentials to pickCredentials
MaxCredentials == 2

\* requests built in one run
MaxRequests == 2

\* calls of Presentation.prepare in one run
MaxPrepares == 2

\* calls of Presentation.verify on one presentation
MaxVerifies == 2

\* bits of a UInt8 in the model of the numeric gadgets; the wider types are
\* scaled with it: UInt32 has one bit more, UInt64 and the magnitude of an
\* Int64 two bits more, and the field has a prime order above all of them
NumericBits == 2

\* calls of verifyZkPass of the demo verifier
MaxSubmissions == 2

\* the values Field.random() is seen to return
Nonces == {0, 1}

None == [type |-> "none"]

\* the outcome of a call that returns a value or throws
Returned(value) == [ok |-> TRUE, error |-> "", value |-> value]

Thrown(error) == [ok |-> FALSE, error |-> error, value |-> None]

\* hasProperty(obj, key): obj is an object that has the key
hasProperty(json, name) == json # None /\ name \in DOMAIN json

(***************************************************************************)
(* Field elements and hashing primitives                                   *)
(***************************************************************************)
Field(n) == <<"F", n>>

\* Poseidon.hashWithPrefix(prefix, fields), collision-free
hashWithPrefix(prefix, fields) == <<"H", prefix, fields>>

\* Poseidon.hash(fields): hashing without a domain prefix
PoseidonHash(fields) == <<"H", "", fields>>

\* hashString(s): hash of the packed bytes of a string
hashString(s) == <<"S", s>>

\* PublicKey.toFields(): the x coordinate and the parity bit
PublicKeyToFields(pk) == << <<"x", pk>>, <<"isOdd", pk>> >>

prefixes ==
    [ nonce         |-> "mina-cred:v0:nonce",
      context       |-> "mina-cred:v0:context",
      zkappIdentity |-> "mina-cred:v0:zkapp-identity" ]

\* object spread {...a, ...b}: the properties of b override those of a
Spread(a, b) ==
    [k \in (DOMAIN a) \cup (DOMAIN b) |-> IF k \in DOMAIN b THEN b[k] ELSE a[k]]

(***************************************************************************)
(* src/src/context.ts                                                      *)
(***************************************************************************)
computeNonceNoServer(serverNonce, clientNonce) ==
    hashWithPrefix(prefixes.nonce, <<Field(0), clientNonce>>)

computeNonce(serverNonce, clientNonce) ==
    hashWithPrefix(prefixes.nonce, <<serverNonce, clientNonce>>)

networkToField(network) ==
    IF network = "mainnet" THEN Field(0)
    ELSE IF network = "devnet" THEN Field(1)
    ELSE hashString(network)

hashZkAppIdentity(identity) ==
    hashWithPrefix(prefixes.zkappIdentity,
        <<networkToField(identity.network)>>
            \o PublicKeyToFields(identity.publicKey)
            \o <<identity.tokenId>>)

computeHttpsContext(input) ==
    [ type             |-> input.type,
      vkHash           |-> input.vkHash,
      nonce            |-> computeNonce(input.serverNonce, input.clientNonce),
      verifierIdentity |-> hashString(input.verifierIdentity),
      action           |-> hashString(input.action),
      claims           |-> input.claims ]

computeZkAppContext(input) ==
    [ type             |-> input.type,
      vkHash           |-> input.vkHash,
      nonce            |-> computeNonce(input.serverNonce, input.clientNonce),
      verifierIdentity |-> hashZkAppIdentity(input.verifierIdentity),
      action           |-> hashString(input.action),
      claims           |-> input.claims ]

hashContextNoAction(input) ==
    hashWithPrefix(prefixes.context,
        << hashString(input.type), input.vkHash, input.nonce,
           input.verifierIdentity, input.claims >>)

hashContextNoVk(input) ==
    hashWithPrefix(prefixes.context,
        << hashString(input.type), input.nonce,
           input.verifierIdentity, input.action, input.claims >>)

hashContextReordered(input) ==
    hashWithPrefix(prefixes.context,
        << hashString(input.type), input.vkHash, input.nonce,
           input.action, input.verifierIdentity, input.claims >>)

hashContext(input) ==
    hashWithPrefix(prefixes.context,
        << hashString(input.type), input.vkHash, input.nonce,
           input.verifierIdentity, input.action, input.claims >>)

(***************************************************************************)
(* src/src/index.ts: deriveContext of the three kinds of request           *)
(***************************************************************************)
HttpsDeriveContext(inputContext, walletContext, derivedContext) ==
    hashContext(computeHttpsContext(
        Spread(Spread(inputContext, walletContext), derivedContext)))

ZkAppDeriveContext(inputContext, walletContext, derivedContext) ==
    hashContext(computeZkAppContext(Spread(inputContext, derivedContext)))

\* a no-context request that binds the wallet's verifier identity
NoContextDeriveContextBound(inputContext, walletContext, derivedContext) ==
    hashString(walletContext.verifierIdentity)

NoContextDeriveContext(inputContext, walletContext, derivedContext) == Field(0)

deriveContext(type, inputContext, walletContext, derivedContext) ==
    IF type = "https"
        THEN HttpsDeriveContext(inputContext, walletContext, derivedContext)
    ELSE IF type = "zk-app"
        THEN ZkAppDeriveContext(inputContext, walletContext, derivedContext)
    ELSE NoContextDeriveContext(inputContext, walletContext, derivedContext)

(***************************************************************************)
(* Inputs the operations are called with                                   *)
(***************************************************************************)
\* two presentation specs, shaped like the ones of the repository's tests:
\*   ageEquals: credential {age}, claim targetAge; assert age = targetAge;
\*              outputClaim age
\*   ownerOf:   credential {age}, no claim; assert age = 18; outputClaim owner
Specs == {"ageEquals", "ownerOf"}

\* claims are a list of <<name, value>> pairs in declaration order
ClaimsOf(spec) ==
    IF spec = "ageEquals"
        THEN { << <<"targetAge", Field(18)>> >>, << <<"targetAge", Field(21)>> >> }
        ELSE { << >> }

Actions == {"login", "pay"}

HttpsIdentities == {"my-app.xyz", "evil.com"}

TokenIdDefault == Field(1)

ZkAppIdentities ==
    { [publicKey |-> pk, tokenId |-> TokenIdDefault, network |-> "devnet"]
        : pk \in {"zkAppA", "zkAppB"} }

\* what a caller hands over as wallet context
WalletContexts == { [verifierIdentity |-> v] : v \in HttpsIdentities }

\* verificationKey.hash of the program compiled from a spec
VkHash(spec) == <<"VK", spec>>

\* Struct(claimsType).toFields(claims): the values in declaration order
ClaimsToFields(claims) == [i \in 1 .. Len(claims) |-> claims[i][2]]

hashClaims(claims) == PoseidonHash(ClaimsToFields(claims))

HttpsInputContexts ==
    { [type |-> "https", action |-> a, serverNonce |-> Field(n)]
        : a \in Actions, n \in Nonces }

ZkAppInputContexts ==
    { [type |-> "zk-app", action |-> a, serverNonce |-> Field(n),
       verifierIdentity |-> id]
        : a \in Actions, n \in Nonces, id \in ZkAppIdentities }

InputContextsOf(type) ==
    IF type = "https" THEN HttpsInputContexts ELSE ZkAppInputContexts

DerivedContexts ==
    { [clientNonce |-> Field(n), vkHash |-> VkHash(s), claims |-> hashClaims(c)]
        : n \in Nonces, s \in Specs, c \in UNION { ClaimsOf(sp) : sp \in Specs } }

\* the verifier identity a derivation binds: the wallet's for https, the
\* request's own for zk-app
IdentityUsed(type, inputContext, walletContext) ==
    IF type = "https" THEN hashString(walletContext.verifierIdentity)
    ELSE hashZkAppIdentity(inputContext.verifierIdentity)

(***************************************************************************)
(* Specs, credentials and signatures                                       *)
(***************************************************************************)
\* spec.inputs in declaration order
SpecInputs(spec) ==
    IF spec = "ageEquals"
        THEN << [name |-> "signedData", type |-> "credential",
                 credentialType |-> "native", data |-> {"age"}],
                [name |-> "targetAge", type |-> "claim"] >>
        ELSE IF spec = "ownerOf"
        THEN << [name |-> "signedData", type |-> "credential",
                 credentialType |-> "native", data |-> {"age"}],
                [name |-> "expectedAge", type |-> "constant", value |-> Field(18)] >>
        \* "licenseAndPassport": two credential inputs, the stricter one first
        ELSE IF spec = "licenseAndPassport"
        THEN << [name |-> "driverLicense", type |-> "credential",
                 credentialType |-> "native", data |-> {"age", "name"}],
                [name |-> "passport", type |-> "credential",
                 credentialType |-> "native", data |-> {"age"}] >>
        \* "passportAndLicense": two credential inputs around a constant
        ELSE << [name |-> "passport", type |-> "credential",
                 credentialType |-> "native", data |-> {"age"}],
                [name |-> "minAge", type |-> "constant", value |-> Field(18)],
                [name |-> "driverLicense", type |-> "credential",
                 credentialType |-> "native", data |-> {"age", "name"}] >>

isCredentialSpec(input) == input.type = "credential"

OwnerKey == "owner"

OtherKey == "mallory"

IssuerKey == "issuer"

Keys == {OwnerKey, OtherKey}

\* Signature.create(key, fields) and signature.verify(publicKey, fields):
\* only the holder of a key produces a signature that verifies under it
SignatureCreate(key, fields) == [signer |-> key, fields |-> fields]

SignatureVerify(sig, publicKey, fields) ==
    sig.signer = publicKey /\ sig.fields = fields

hashCredential(credential) ==
    <<"H", "credential", PublicKeyToFields(credential.owner), credential.data>>

\* issuer of a native credential: Poseidon hash of the issuer's public key
NativeIssuer(witness) ==
    <<"H", "native-issuer", PublicKeyToFields(witness.issuer)>>

\* Credential.sign(issuerKey, {owner, data})
CredentialSign(issuerKey, credential) ==
    [ version    |-> "v0",
      witness    |-> [ type |-> "native", issuer |-> issuerKey,
                       issuerSignature |->
                           SignatureCreate(issuerKey, <<hashCredential(credential)>>) ],
      credential |-> credential,
      key        |-> "undefined" ]

\* a credential whose issuer signature is over other data
ForgedCredential(issuerKey, credential) ==
    [ CredentialSign(issuerKey, credential) EXCEPT
        !.witness.issuerSignature =
            SignatureCreate(OtherKey, <<hashCredential(credential)>>) ]

\* verify of a native credential spec
NativeVerify(stored) ==
    SignatureVerify(stored.witness.issuerSignature, stored.witness.issuer,
                    <<hashCredential(stored.credential)>>)

\* version, witness type, and structural compatibility of the data with the
\* spec's data schema: the data carries every field the schema declares
credentialMatchesSpec(input, stored) ==
    /\ stored.version = "v0"
    /\ stored.witness.type = input.credentialType
    /\ input.data \subseteq DOMAIN stored.credential.data

StoredCredentials ==
    { CredentialSign(IssuerKey, [owner |-> OwnerKey, data |-> [age |-> a]])
        : a \in {16, 18} }
    \cup { ForgedCredential(IssuerKey, [owner |-> OwnerKey, data |-> [age |-> 18]]) }

\* the credential arrays a wallet supplies
CredentialLists == { << >> } \cup { <<c>> : c \in StoredCredentials }

(***************************************************************************)
(* src/src/credential-index.ts: Credential.unsigned, Credential.validate   *)
(***************************************************************************)
\* the owner of every unsigned credential
DummyOwner == "dummy"

\* Credential.unsigned(data): witness undefined, dummy owner
createUnsigned(data) ==
    [ version    |-> "v0",
      witness    |-> None,
      credential |-> [owner |-> DummyOwner, data |-> data],
      key        |-> "undefined" ]

witnessTypes == {"native", "imported"}

knownWitness(witness) ==
    hasProperty(witness, "type") /\ witness.type \in witnessTypes

\* spec.verifyOutsideCircuit(witness, credHash): the issuer's signature for a
\* native credential, the proof for an imported one
verifyOutsideCircuit(credential) ==
    IF credential.witness.type = "native"
        THEN IF NativeVerify(credential) THEN Returned(None)
             ELSE Thrown("Invalid signature")
        ELSE IF credential.witness.proof = hashCredential(credential.credential)
             THEN Returned(None)
             ELSE Thrown("Invalid proof")

validateCredential(credential) ==
    IF credential.version # "v0" THEN Thrown("Unsupported credential version")
    ELSE IF ~knownWitness(credential.witness) THEN Thrown("Unknown credential type")
    ELSE verifyOutsideCircuit(credential)

(***************************************************************************)
(* src/src/index.ts: pickCredentials                                       *)
(***************************************************************************)
RemoveAt(seq, i) == SubSeq(seq, 1, i - 1) \o SubSeq(seq, i + 1, Len(seq))

FindIndexFirst(passes) == IF Len(passes) > 0 THEN 1 ELSE 0

\* Array.prototype.findIndex, 1-based; 0 when no element passes. passes[i]
\* is the result of the callback on element i
FindIndex(passes) ==
    IF \E i \in 1 .. Len(passes) : passes[i]
        THEN CHOOSE i \in 1 .. Len(passes) :
                /\ passes[i]
                /\ \A j \in 1 .. i - 1 : ~passes[j]
        ELSE 0

NoCredentialsUsed == [k \in {} |-> None]

\* a first loop that leaves the credential it takes in the array
RECURSIVE KeyedPassKeeping(_, _, _)
KeyedPassKeeping(needed, i, st) ==
    IF i > Len(needed) THEN st
    ELSE LET key == needed[i].name
             k == FindIndex([n \in 1 .. Len(st.credentials) |->
                                st.credentials[n].key = key])
         IN  IF k = 0
                THEN KeyedPassKeeping(needed, i + 1,
                        [st EXCEPT !.stillNeeded = Append(@, needed[i])])
                ELSE KeyedPassKeeping(needed, i + 1,
                        [st EXCEPT !.used = @ @@ (key :> st.credentials[k])])

\* first loop: a credential carrying the key of a needed input is taken for it
RECURSIVE KeyedPass(_, _, _)
KeyedPass(needed, i, st) ==
    IF i > Len(needed) THEN st
    ELSE LET key == needed[i].name
             k == FindIndex([n \in 1 .. Len(st.credentials) |->
                                st.credentials[n].key = key])
         IN  IF k = 0
                THEN KeyedPass(needed, i + 1,
                        [st EXCEPT !.stillNeeded = Append(@, needed[i])])
                ELSE KeyedPass(needed, i + 1,
                        [st EXCEPT
                            !.used = @ @@ (key :> st.credentials[k]),
                            !.credentials = RemoveAt(@, k)])

RECURSIVE MatchPassReversed(_, _, _)
MatchPassReversed(credentials, i, st) ==
    IF i > Len(credentials) \/ Len(st.stillNeeded) = 0 THEN st
    ELSE LET c == credentials[Len(credentials) + 1 - i]
             j == FindIndex([n \in 1 .. Len(st.stillNeeded) |->
                        credentialMatchesSpec(st.stillNeeded[n], c)])
         IN  IF j = 0
                THEN MatchPassReversed(credentials, i + 1, st)
                ELSE MatchPassReversed(credentials, i + 1,
                        [st EXCEPT
                            !.used = @ @@ (st.stillNeeded[j].name :> c),
                            !.stillNeeded = RemoveAt(@, j)])

\* second loop: each remaining credential, in array order, fills the first
\* still needed input whose spec it matches
RECURSIVE MatchPass(_, _, _)
MatchPass(credentials, i, st) ==
    IF i > Len(credentials) \/ Len(st.stillNeeded) = 0 THEN st
    ELSE LET j == FindIndex([n \in 1 .. Len(st.stillNeeded) |->
                        credentialMatchesSpec(st.stillNeeded[n], credentials[i])])
         IN  IF j = 0
                THEN MatchPass(credentials, i + 1, st)
                ELSE MatchPass(credentials, i + 1,
                        [st EXCEPT
                            !.used = @ @@ (st.stillNeeded[j].name :> credentials[i]),
                            !.stillNeeded = RemoveAt(@, j)])

pickCredentialsByPosition(spec, credentials) ==
    LET credentialsNeeded == SelectSeq(SpecInputs(spec), isCredentialSpec)
        n == Len(credentialsNeeded)
    IN  IF Len(credentials) < n
            THEN [ ok |-> FALSE, error |-> "Missing credentials",
                   missing |-> [i \in 1 .. n - Len(credentials) |->
                                    credentialsNeeded[Len(credentials) + i].name] ]
            ELSE [ ok |-> TRUE,
                   credentialsUsed |->
                       [name \in {credentialsNeeded[i].name : i \in 1 .. n} |->
                           credentials[CHOOSE i \in 1 .. n :
                                            credentialsNeeded[i].name = name]],
                   credentialsAndSpecs |->
                       [i \in 1 .. n |->
                           [stored |-> credentials[i], spec |-> credentialsNeeded[i]]] ]

pickCredentialsNamingAll(spec, credentials) ==
    LET credentialsNeeded == SelectSeq(SpecInputs(spec), isCredentialSpec)
        st0 == [ used |-> NoCredentialsUsed, credentials |-> credentials,
                 stillNeeded |-> << >> ]
        st1 == KeyedPass(credentialsNeeded, 1, st0)
        st2 == MatchPass(st1.credentials, 1, st1)
    IN  IF Len(st2.stillNeeded) # 0
            THEN [ ok |-> FALSE, error |-> "Missing credentials",
                   missing |-> [i \in 1 .. Len(credentialsNeeded) |->
                                    credentialsNeeded[i].name] ]
            ELSE [ ok |-> TRUE,
                   credentialsUsed |-> st2.used,
                   credentialsAndSpecs |->
                       [i \in 1 .. Len(credentialsNeeded) |->
                           [ stored |-> st2.used[credentialsNeeded[i].name],
                             spec   |-> credentialsNeeded[i] ]] ]

\* the assignments of distinct supplied credentials to all credential
\* inputs of a spec in which every credential matches its input
CompleteAssignments(spec, credentials) ==
    LET needed == SelectSeq(SpecInputs(spec), isCredentialSpec)
    IN  { f \in [1 .. Len(needed) -> 1 .. Len(credentials)] :
            /\ \A i, j \in 1 .. Len(needed) : f[i] = f[j] => i = j
            /\ \A i \in 1 .. Len(needed) :
                    credentialMatchesSpec(needed[i], credentials[f[i]]) }

pickCredentialsBacktracking(spec, credentials) ==
    LET credentialsNeeded == SelectSeq(SpecInputs(spec), isCredentialSpec)
        n == Len(credentialsNeeded)
        all == CompleteAssignments(spec, credentials)
        f == CHOOSE f \in all : TRUE
    IN  IF all = {}
            THEN [ ok |-> FALSE, error |-> "Missing credentials",
                   missing |-> [i \in 1 .. n |-> credentialsNeeded[i].name] ]
            ELSE [ ok |-> TRUE,
                   credentialsUsed |->
                       [name \in {credentialsNeeded[i].name : i \in 1 .. n} |->
                           credentials[f[CHOOSE i \in 1 .. n :
                                            credentialsNeeded[i].name = name]]],
                   credentialsAndSpecs |->
                       [i \in 1 .. n |->
                           [ stored |-> credentials[f[i]],
                             spec   |-> credentialsNeeded[i] ]] ]

pickCredentials(spec, credentials) ==
    LET credentialsNeeded == SelectSeq(SpecInputs(spec), isCredentialSpec)
        st0 == [ used |-> NoCredentialsUsed, credentials |-> credentials,
                 stillNeeded |-> << >> ]
        st1 == KeyedPass(credentialsNeeded, 1, st0)
        st2 == MatchPass(st1.credentials, 1, st1)
    IN  IF Len(st2.stillNeeded) # 0
            THEN [ ok |-> FALSE, error |-> "Missing credentials",
                   missing |-> [i \in 1 .. Len(st2.stillNeeded) |->
                                    st2.stillNeeded[i].name] ]
            ELSE [ ok |-> TRUE,
                   credentialsUsed |-> st2.used,
                   credentialsAndSpecs |->
                       [i \in 1 .. Len(credentialsNeeded) |->
                           [ stored |-> st2.used[credentialsNeeded[i].name],
                             spec   |-> credentialsNeeded[i] ]] ]

(***************************************************************************)
(* The compiled program of a spec (proving backend)                        *)
(***************************************************************************)
HasClaim(claims, name) == \E i \in 1 .. Len(claims) : claims[i][1] = name

ClaimValue(claims, name) ==
    claims[CHOOSE i \in 1 .. Len(claims) : claims[i][1] = name][2]

ClaimNames(spec) ==
    LET IsClaim(input) == input.type = "claim"
        cs == SelectSeq(SpecInputs(spec), IsClaim)
    IN  [i \in 1 .. Len(cs) |-> cs[i].name]

\* the spec's assert node, evaluated
AssertNode(spec, claims, credentials) ==
    IF spec = "ageEquals"
        THEN Field(credentials.signedData.credential.data.age)
                = ClaimValue(claims, "targetAge")
        ELSE Field(credentials.signedData.credential.data.age) = Field(18)

\* the spec's outputClaim node, evaluated
OutputClaimNode(spec, claims, credentials) ==
    IF spec = "ageEquals"
        THEN Field(credentials.signedData.credential.data.age)
        ELSE <<"PK", credentials.signedData.credential.owner>>

NoOutput == <<"undefined">>

\* publicOutputType.toFields(outputClaim) of the program of a spec
OutputToFields(spec, outputClaim) ==
    IF spec = "ageEquals" THEN <<outputClaim>>
    ELSE PublicKeyToFields(outputClaim[2])

FieldsToSignHashesFirst(context, credentialsAndSpecs) ==
    LET n == Len(credentialsAndSpecs)
    IN  <<context>> \o
        [i \in 1 .. n |-> hashCredential(credentialsAndSpecs[i].stored.credential)] \o
        [i \in 1 .. n |-> NativeIssuer(credentialsAndSpecs[i].stored.witness)]

\* the fields the owner signs: the context, then (credential hash, issuer)
\* for every credential input in declaration order
FieldsToSign(context, credentialsAndSpecs) ==
    LET n == Len(credentialsAndSpecs)
    IN  <<context>> \o
        [i \in 1 .. 2 * n |->
            IF i % 2 = 1
                THEN hashCredential(credentialsAndSpecs[(i + 1) \div 2].stored.credential)
                ELSE NativeIssuer(credentialsAndSpecs[i \div 2].stored.witness)]

\* program.run({context, claims, ownerSignature, credentials}): checks the
\* owner signature over the signed fields, verifies every credential,
\* asserts the spec's assert and proves the outputClaim
ProgramRun(spec, input) ==
    LET needed == SelectSeq(SpecInputs(spec), isCredentialSpec)
        cas == [i \in 1 .. Len(needed) |->
                    [stored |-> input.credentials[needed[i].name], spec |-> needed[i]]]
        fields == FieldsToSign(input.context, cas)
        output == OutputClaimNode(spec, input.claims, input.credentials)
    IN  IF \E i \in 1 .. Len(ClaimNames(spec)) :
                ~HasClaim(input.claims, ClaimNames(spec)[i])
            THEN [ok |-> FALSE, error |-> "TypeError"]
        ELSE IF \E i \in 1 .. Len(cas) :
                ~SignatureVerify(input.ownerSignature,
                                 cas[i].stored.credential.owner, fields)
            THEN [ok |-> FALSE, error |-> "Invalid owner signature"]
        ELSE IF \E i \in 1 .. Len(cas) : ~NativeVerify(cas[i].stored)
            THEN [ok |-> FALSE, error |-> "Invalid credential signature"]
        ELSE IF ~AssertNode(spec, input.claims, input.credentials)
            THEN [ok |-> FALSE, error |-> "Program assertion failed"]
        ELSE [ ok |-> TRUE,
               publicOutput |-> output,
               proof |-> [ vk           |-> VkHash(spec),
                           publicInput  |-> <<input.context>>
                                               \o ClaimsToFields(input.claims),
                           publicOutput |-> OutputToFields(spec, output) ] ]

\* verify(jsonProof, verificationKey): a proof verifies exactly for the
\* statement it was produced for
ProofVerify(proof, publicInput, publicOutput, vk) ==
    /\ proof.vk = vk
    /\ proof.publicInput = publicInput
    /\ proof.publicOutput = publicOutput

(***************************************************************************)
(* src/src/index.ts: requests                                              *)
(***************************************************************************)
HttpsRequest(spec, claims, inputContext) ==
    [type |-> "https", spec |-> spec, claims |-> claims, inputContext |-> inputContext]

ZkAppRequest(spec, claims, inputContext) ==
    [type |-> "zk-app", spec |-> spec, claims |-> claims, inputContext |-> inputContext]

\* PresentationRequest.https(spec, claims, {action}); serverNonce = Field.random()
PresentationRequestHttps(spec, claims, context, serverNonce) ==
    HttpsRequest(spec, claims,
        [type |-> "https", action |-> context.action, serverNonce |-> serverNonce])

\* an optional argument is << >> (omitted) or <<value>>
OrElse(opt, default) == IF Len(opt) = 0 THEN default ELSE opt[1]

\* a zkApp constructor whose default network is mainnet
PresentationRequestZkAppDefaultMainnet(spec, claims, context) ==
    ZkAppRequest(spec, claims,
        [ type             |-> "zk-app",
          verifierIdentity |->
              [ publicKey |-> context.publicKey,
                tokenId   |-> OrElse(context.tokenId, TokenIdDefault),
                network   |-> OrElse(context.network, "mainnet") ],
          action           |-> context.methodName,
          serverNonce      |-> OrElse(context.nonce, Field(0)) ])

\* PresentationRequest.zkApp(spec, claims, {publicKey, tokenId?, methodName,
\* network?, nonce?})
PresentationRequestZkApp(spec, claims, context) ==
    ZkAppRequest(spec, claims,
        [ type             |-> "zk-app",
          verifierIdentity |->
              [ publicKey |-> context.publicKey,
                tokenId   |-> OrElse(context.tokenId, TokenIdDefault),
                network   |-> OrElse(context.network, "devnet") ],
          action           |-> context.methodName,
          serverNonce      |-> OrElse(context.nonce, Field(0)) ])

\* what Presentation.precompile(spec) returns
Precompiled(spec) == [spec |-> spec]

\* PresentationRequest.httpsFromCompiled(compiled, claims, {action});
\* serverNonce = Field.random()
PresentationRequestHttpsFromCompiled(compiled, claims, context, serverNonce) ==
    HttpsRequest(compiled.spec, claims,
        [type |-> "https", action |-> context.action, serverNonce |-> serverNonce])

\* PresentationRequest.zkAppFromCompiled(compiled, claims, {publicKey,
\* tokenId?, methodName, network?, nonce?})
PresentationRequestZkAppFromCompiled(compiled, claims, context) ==
    ZkAppRequest(compiled.spec, claims,
        [ type             |-> "zk-app",
          verifierIdentity |->
              [ publicKey |-> context.publicKey,
                tokenId   |-> OrElse(context.tokenId, TokenIdDefault),
                network   |-> OrElse(context.network, "devnet") ],
          action           |-> context.methodName,
          serverNonce      |-> OrElse(context.nonce, Field(0)) ])

PresentationRequestNoContext(spec, claims) ==
    [type |-> "no-context", spec |-> spec, claims |-> claims, inputContext |-> None]

\* request.deriveContext(request.inputContext, walletContext, derivedContext)
RequestDeriveContext(req, walletContext, derivedContext) ==
    deriveContext(req.type, req.inputContext, walletContext, derivedContext)

(***************************************************************************)
(* src/src/index.ts: prepare, finalize, create, verify                     *)
(***************************************************************************)
\* f.toString() and Field.from(string)
FieldToString(f) == <<"str", f>>

FieldFromTruncating(str) == Field(0)

FieldFrom(str) == str[2]

\* a prepare that takes its client nonce from the request, not from the draw
preparePresentationNonceFromRequest(req, walletContext, credentials, clientNonce) ==
    LET picked == pickCredentials(req.spec, credentials)
        nonce == IF req.type = "no-context" THEN Field(0)
                 ELSE req.inputContext.serverNonce
        context == RequestDeriveContext(req, walletContext,
                        [ clientNonce |-> nonce,
                          vkHash      |-> VkHash(req.spec),
                          claims      |-> hashClaims(req.claims) ])
        fieldsToSign == FieldsToSign(context, picked.credentialsAndSpecs)
    IN  IF ~picked.ok THEN [ok |-> FALSE, error |-> picked.error]
        ELSE [ ok              |-> TRUE,
               context         |-> context,
               messageFields   |-> [i \in 1 .. Len(fieldsToSign) |->
                                        FieldToString(fieldsToSign[i])],
               credentialsUsed |-> picked.credentialsUsed,
               serverNonce     |-> nonce,
               clientNonce     |-> nonce,
               compiledRequest |-> [spec |-> req.spec] ]

\* clientNonce is the value Field.random() returns during the call
preparePresentation(req, walletContext, credentials, clientNonce) ==
    LET picked == pickCredentials(req.spec, credentials)
        context == RequestDeriveContext(req, walletContext,
                        [ clientNonce |-> clientNonce,
                          vkHash      |-> VkHash(req.spec),
                          claims      |-> hashClaims(req.claims) ])
        fieldsToSign == FieldsToSign(context, picked.credentialsAndSpecs)
    IN  IF ~picked.ok THEN [ok |-> FALSE, error |-> picked.error]
        ELSE [ ok              |-> TRUE,
               context         |-> context,
               messageFields   |-> [i \in 1 .. Len(fieldsToSign) |->
                                        FieldToString(fieldsToSign[i])],
               credentialsUsed |-> picked.credentialsUsed,
               serverNonce     |-> IF req.type = "no-context" THEN Field(0)
                                   ELSE req.inputContext.serverNonce,
               clientNonce     |-> clientNonce,
               compiledRequest |-> [spec |-> req.spec] ]

finalizePresentationFixedClaims(req, ownerSignature, preparedData) ==
    LET run == ProgramRun(preparedData.compiledRequest.spec,
                    [ context        |-> preparedData.context,
                      claims         |-> << <<"targetAge", Field(18)>> >>,
                      ownerSignature |-> ownerSignature,
                      credentials    |-> preparedData.credentialsUsed ])
    IN  IF ~run.ok THEN [ok |-> FALSE, error |-> run.error]
        ELSE [ ok           |-> TRUE,
               presentation |->
                   [ version     |-> "v0",
                     claims      |-> req.claims,
                     outputClaim |-> run.publicOutput,
                     serverNonce |-> preparedData.serverNonce,
                     clientNonce |-> preparedData.clientNonce,
                     proof       |-> run.proof ] ]

finalizePresentation(req, ownerSignature, preparedData) ==
    LET run == ProgramRun(preparedData.compiledRequest.spec,
                    [ context        |-> preparedData.context,
                      claims         |-> req.claims,
                      ownerSignature |-> ownerSignature,
                      credentials    |-> preparedData.credentialsUsed ])
    IN  IF ~run.ok THEN [ok |-> FALSE, error |-> run.error]
        ELSE [ ok           |-> TRUE,
               presentation |->
                   [ version     |-> "v0",
                     claims      |-> req.claims,
                     outputClaim |-> run.publicOutput,
                     serverNonce |-> preparedData.serverNonce,
                     clientNonce |-> preparedData.clientNonce,
                     proof       |-> run.proof ] ]

createPresentation(ownerKey, req, walletContext, credentials, clientNonce) ==
    LET p == preparePresentation(req, walletContext, credentials, clientNonce)
        ownerSignature ==
            SignatureCreate(ownerKey,
                [i \in 1 .. Len(p.messageFields) |-> FieldFrom(p.messageFields[i])])
    IN  IF ~p.ok THEN p ELSE finalizePresentation(req, ownerSignature, p)

\* Provable.assertEqual(claimType, presentation.claims, request.claims) with
\* claimType taken from request.claims: the fields of the two values under
\* that type are compared one by one
ClaimsAssertEqual(requestClaims, presentationClaims) ==
    IF \E i \in 1 .. Len(requestClaims) :
            ~HasClaim(presentationClaims, requestClaims[i][1])
        THEN "TypeError"
    ELSE IF \E i \in 1 .. Len(requestClaims) :
            ClaimValue(presentationClaims, requestClaims[i][1]) # requestClaims[i][2]
        THEN "Field.assertEquals()"
    ELSE "ok"

Failure(error) == [ok |-> FALSE, error |-> error, outputClaim |-> NoOutput]

\* a verifier that reads the server nonce off the presentation
verifyPresentationTrustingNonce(req, pres, walletContext) ==
    LET vk == VkHash(req.spec)
        contextHash == RequestDeriveContext(
                            [req EXCEPT !.inputContext.serverNonce = pres.serverNonce],
                            walletContext,
                            [ clientNonce |-> pres.clientNonce,
                              vkHash      |-> vk,
                              claims      |-> hashClaims(req.claims) ])
        claimsEqual == ClaimsAssertEqual(req.claims, pres.claims)
        wellTyped == (req.spec = "ageEquals") \/ (pres.outputClaim[1] = "PK")
        publicInputFields == <<contextHash>> \o ClaimsToFields(req.claims)
        publicOutputFields == OutputToFields(req.spec, pres.outputClaim)
    IN  IF claimsEqual # "ok" THEN Failure(claimsEqual)
        ELSE IF ~wellTyped THEN Failure("TypeError")
        ELSE IF ~ProofVerify(pres.proof, publicInputFields, publicOutputFields, vk)
            THEN Failure("Invalid proof")
        ELSE [ok |-> TRUE, error |-> "", outputClaim |-> pres.outputClaim]

verifyPresentation(req, pres, walletContext) ==
    LET vk == VkHash(req.spec)
        contextHash == RequestDeriveContext(req, walletContext,
                            [ clientNonce |-> pres.clientNonce,
                              vkHash      |-> vk,
                              claims      |-> hashClaims(req.claims) ])
        claimsEqual == ClaimsAssertEqual(req.claims, pres.claims)
        wellTyped == (req.spec = "ageEquals") \/ (pres.outputClaim[1] = "PK")
        publicInputFields == <<contextHash>> \o ClaimsToFields(req.claims)
        publicOutputFields == OutputToFields(req.spec, pres.outputClaim)
    IN  IF claimsEqual # "ok" THEN Failure(claimsEqual)
        ELSE IF ~wellTyped THEN Failure("TypeError")
        ELSE IF ~ProofVerify(pres.proof, publicInputFields, publicOutputFields, vk)
            THEN Failure("Invalid proof")
        ELSE [ok |-> TRUE, error |-> "", outputClaim |-> pres.outputClaim]

\* hashClaimsFromType(claimsType, claims): the fields of the claims under the
\* claims type of the compiled program, a list of claim names
hashClaimsFromType(claimsType, claims) ==
    PoseidonHash([i \in 1 .. Len(claimsType) |-> ClaimValue(claims, claimsType[i])])

\* ProvablePresentation.from(presentation) of a precompiled request
ProvablePresentationFrom(compiled, input) ==
    [ claims          |-> input.claims,
      clientNonce     |-> input.clientNonce,
      compiledRequest |-> [ claimsType      |-> ClaimNames(compiled.spec),
                            verificationKey |-> VkHash(compiled.spec) ] ]

\* ProvablePresentation.verify({publicKey, tokenId, methodName, network?,
\* nonce?}): the context hash it rederives
ProvablePresentationContextHash(this, context) ==
    hashContext(computeZkAppContext(
        [ type             |-> "zk-app",
          verifierIdentity |->
              [ publicKey |-> context.publicKey,
                tokenId   |-> context.tokenId,
                network   |-> OrElse(context.network, "devnet") ],
          action           |-> context.methodName,
          serverNonce      |-> OrElse(context.nonce, Field(0)),
          clientNonce      |-> this.clientNonce,
          vkHash           |-> this.compiledRequest.verificationKey,
          claims           |-> hashClaimsFromType(this.compiledRequest.claimsType,
                                                  this.claims) ]))

\* Presentation.compile(request) on a verifier that has compiled the programs
\* of the specs in `compiled`: the verification key, and the programs compiled
\* after the call
PresentationCompile(compiledSpecs, req) ==
    [ compiled        |-> compiledSpecs \cup {req.spec},
      verificationKey |-> VkHash(req.spec) ]

\* a verifier that accepts presentations only for a program it compiles anew
PresentationVerifyOnce(compiledSpecs, req, pres, walletContext) ==
    [ compiled |-> PresentationCompile(compiledSpecs, req).compiled,
      result   |-> IF req.spec \in compiledSpecs THEN Failure("Invalid proof")
                   ELSE verifyPresentation(req, pres, walletContext) ]

\* Presentation.verify(request, presentation, context) with the state it
\* reads and leaves behind: the compiled programs
PresentationVerify(compiledSpecs, req, pres, walletContext) ==
    [ compiled |-> PresentationCompile(compiledSpecs, req).compiled,
      result   |-> verifyPresentation(req, pres, walletContext) ]

(***************************************************************************)
(* Specification SpecCtx: two context derivations side by side             *)
(***************************************************************************)
Derivation(type, ic, wc, dc) ==
    [ type           |-> type,
      inputContext   |-> ic,
      walletContext  |-> wc,
      derivedContext |-> dc,
      context        |-> deriveContext(type, ic, wc, dc) ]

Derive1 ==
    /\ d1 = None
    /\ \E type \in {"https", "zk-app"} :
       \E ic \in InputContextsOf(type), wc \in WalletContexts, dc \in DerivedContexts :
            d1' = Derivation(type, ic, wc, dc)
    /\ UNCHANGED <<d2, protocolVars, pickVars, jsonVars, runVars, verifyVars, numericVars,
                 demoVars>>

Derive2 ==
    /\ d1 # None
    /\ d2 = None
    /\ \E type \in {"https", "zk-app"} :
       \E ic \in InputContextsOf(type), wc \in WalletContexts, dc \in DerivedContexts :
            d2' = Derivation(type, ic, wc, dc)
    /\ UNCHANGED <<d1, protocolVars, pickVars, jsonVars, runVars, verifyVars, numericVars,
                 demoVars>>

InitProtocol ==
    /\ request = None
    /\ prepared = None
    /\ prepCall = None
    /\ presentation = None
    /\ tampered = 0
    /\ last = None

InitPick ==
    /\ pick = None
    /\ pickPrepared = None
    /\ validated = None

InitJson ==
    /\ original = None
    /\ wire = None
    /\ parsedRequest = None
    /\ decoded = None

InitRun ==
    /\ entropy = 0
    /\ built = << >>
    /\ prepares = << >>

InitVerify ==
    /\ subject = None
    /\ compiledPrograms = {}
    /\ verdicts = << >>

InitNumeric == numeric = None

InitDemo ==
    /\ openRequests = {}
    /\ issued = 0
    /\ calls = <<>>
    /\ nullifiers = {}

InitCtx ==
    /\ d1 = None
    /\ d2 = None
    /\ InitProtocol
    /\ InitPick
    /\ InitJson
    /\ InitRun
    /\ InitVerify
    /\ InitNumeric
    /\ InitDemo

NextCtx == Derive1 \/ Derive2

SpecCtx == InitCtx /\ [][NextCtx]_vars

(***************************************************************************)
(* Specification Spec: the presentation lifecycle                          *)
(*                                                                         *)
(*   request      the request the verifier built last (handed to wallet)   *)
(*   prepared     what the wallet's last prepare call returned             *)
(*   prepCall     the request and wallet context of that prepare call      *)
(*   presentation the presentation finalized from prepared, as it is on    *)
(*                the wire (an attacker may change its plain fields)       *)
(*   tampered     how often the presentation was changed on the wire       *)
(*   last         the outcome of the most recent step                      *)
(***************************************************************************)
NoWallet == [verifierIdentity |-> ""]

Outcome(op, res, walletContext, signer) ==
    [ op            |-> op,
      ok            |-> res.ok,
      error         |-> IF res.ok THEN "" ELSE res.error,
      walletContext |-> walletContext,
      signer        |-> signer,
      outputClaim   |-> IF op = "verify" THEN res.outputClaim ELSE NoOutput ]

Done(op) == Outcome(op, [ok |-> TRUE], NoWallet, "")

\* the verifier builds its first request, or a further one once it has been
\* sent a presentation for the current one
CanBuildRequest ==
    \/ request = None
    \/ (presentation # None /\ request = prepCall.request)

RequestHttps ==
    /\ CanBuildRequest
    /\ \E spec \in Specs : \E claims \in ClaimsOf(spec) :
       \E action \in Actions, n \in Nonces :
            request' = PresentationRequestHttps(spec, claims,
                            [action |-> action], Field(n))
    /\ last' = Done("request")
    /\ UNCHANGED <<prepared, prepCall, presentation, tampered, ctxVars, pickVars, jsonVars, runVars, verifyVars, numericVars,
                 demoVars>>

RequestZkApp ==
    /\ CanBuildRequest
    /\ \E spec \in Specs : \E claims \in ClaimsOf(spec) :
       \E pk \in {"zkAppA", "zkAppB"}, methodName \in Actions,
          nonce \in { << >> } \cup { <<Field(n)>> : n \in Nonces \ {0} } :
            request' = PresentationRequestZkApp(spec, claims,
                            [ publicKey  |-> pk,
                              tokenId    |-> << >>,
                              methodName |-> methodName,
                              network    |-> << >>,
                              nonce      |-> nonce ])
    /\ last' = Done("request")
    /\ UNCHANGED <<prepared, prepCall, presentation, tampered, ctxVars, pickVars, jsonVars, runVars, verifyVars, numericVars,
                 demoVars>>

Prepare ==
    /\ request # None
    /\ presentation = None
    /\ \E wc \in WalletContexts, credentials \in CredentialLists, n \in Nonces :
        LET res == preparePresentation(request, wc, credentials, Field(n))
        IN  /\ prepared' = IF res.ok THEN res ELSE None
            /\ prepCall' = IF res.ok
                              THEN [request |-> request, walletContext |-> wc]
                              ELSE None
            /\ last' = Outcome("prepare", res, wc, "")
    /\ presentation' = None
    /\ tampered' = 0
    /\ UNCHANGED <<request, ctxVars, pickVars, jsonVars, runVars, verifyVars, numericVars,
                 demoVars>>

Finalize ==
    /\ request # None
    /\ prepared # None
    /\ presentation = None
    /\ \E key \in Keys :
        LET sig == SignatureCreate(key,
                        [i \in 1 .. Len(prepared.messageFields) |->
                            FieldFrom(prepared.messageFields[i])])
            res == finalizePresentation(request, sig, prepared)
        IN  /\ presentation' = IF res.ok THEN res.presentation ELSE None
            /\ last' = Outcome("finalize", res, NoWallet, key)
    /\ tampered' = 0
    /\ UNCHANGED <<request, prepared, prepCall, ctxVars, pickVars, jsonVars, runVars, verifyVars, numericVars,
                 demoVars>>

\* Presentation.create: prepare, sign with the owner key, finalize
Create ==
    /\ request # None
    /\ presentation = None
    /\ \E key \in Keys, wc \in WalletContexts, credentials \in CredentialLists,
          n \in Nonces :
        LET p == preparePresentation(request, wc, credentials, Field(n))
            res == createPresentation(key, request, wc, credentials, Field(n))
        IN  /\ prepared' = IF p.ok THEN p ELSE None
            /\ prepCall' = IF p.ok
                              THEN [request |-> request, walletContext |-> wc]
                              ELSE None
            /\ presentation' = IF res.ok THEN res.presentation ELSE None
            /\ last' = Outcome("create", res, wc, key)
    /\ tampered' = 0
    /\ UNCHANGED <<request, ctxVars, pickVars, jsonVars, runVars, verifyVars, numericVars,
                 demoVars>>

\* the values an attacker can write into the plain fields of a presentation
WireClaims ==
    UNION { ClaimsOf(sp) : sp \in Specs }
        \cup { << <<"targetAge", Field(18)>>, <<"extra", Field(1)>> >> }

WireOutputs == { Field(16), <<"PK", OtherKey>> }

Tamper ==
    /\ presentation # None
    /\ tampered < MaxTamper
    /\ \/ \E c \in WireClaims \ {presentation.claims} :
            presentation' = [presentation EXCEPT !.claims = c]
       \/ \E o \in WireOutputs \ {presentation.outputClaim} :
            presentation' = [presentation EXCEPT !.outputClaim = o]
       \/ \E n \in Nonces \ {presentation.serverNonce[2]} :
            presentation' = [presentation EXCEPT !.serverNonce = Field(n)]
       \/ \E n \in Nonces \ {presentation.clientNonce[2]} :
            presentation' = [presentation EXCEPT !.clientNonce = Field(n)]
    /\ tampered' = tampered + 1
    /\ last' = Done("tamper")
    /\ UNCHANGED <<request, prepared, prepCall, ctxVars, pickVars, jsonVars, runVars, verifyVars, numericVars,
                 demoVars>>

Verify ==
    /\ request # None
    /\ presentation # None
    /\ \E wc \in WalletContexts :
        last' = Outcome("verify", verifyPresentation(request, presentation, wc), wc, "")
    /\ UNCHANGED <<request, prepared, prepCall, presentation, tampered, ctxVars, pickVars, jsonVars, runVars, verifyVars, numericVars,
                 demoVars>>

Init ==
    /\ InitProtocol
    /\ d1 = None
    /\ d2 = None
    /\ InitPick
    /\ InitJson
    /\ InitRun
    /\ InitVerify
    /\ InitNumeric
    /\ InitDemo

Next ==
    \/ RequestHttps
    \/ RequestZkApp
    \/ Prepare
    \/ Finalize
    \/ Create
    \/ Tamper
    \/ Verify

Spec == Init /\ [][Next]_vars

(***************************************************************************)
(* Specification SpecPick: credential selection and the fields to sign     *)
(*                                                                         *)
(*   pick          a call of pickCredentials: its arguments and outcome    *)
(*   pickPrepared  a call of preparePresentation with the same spec and    *)
(*                 credentials: its request, wallet context and outcome    *)
(***************************************************************************)
\* the specs credentials are picked for
PickSpecs == {"ageEquals", "passportAndLicense", "licenseAndPassport"}

\* the `key` a caller may attach to a credential; "undefined" is no key
PickKeys == {"undefined", "passport", "driverLicense", "other"}

PickData ==
    { [age |-> 18], [age |-> 16], [age |-> 18, name |-> "Alice"], [name |-> "Bob"] }

\* { ...storedCredential, key }
WithKey(stored, key) == [stored EXCEPT !.key = key]

PickCredentialPool ==
    { WithKey(CredentialSign(IssuerKey, [owner |-> OwnerKey, data |-> data]), key)
        : data \in PickData, key \in PickKeys }

\* the credential arrays handed to pickCredentials: up to MaxCredentials
PickLists ==
    UNION { [1 .. n -> PickCredentialPool] : n \in 0 .. MaxCredentials }

\* an imported credential: its witness holds a proof of the credential hash
ImportedCredential(credential, proof) ==
    [ version    |-> "v0",
      witness    |-> [type |-> "imported", proof |-> proof],
      credential |-> credential,
      key        |-> "undefined" ]

\* the credentials handed to Credential.validate
ValidatePool ==
    LET cred == [owner |-> OwnerKey, data |-> [age |-> 18]]
    IN  { CredentialSign(IssuerKey, cred),
          ForgedCredential(IssuerKey, cred),
          [CredentialSign(IssuerKey, cred) EXCEPT !.version = "v1"],
          ImportedCredential(cred, hashCredential(cred)),
          ImportedCredential(cred, hashCredential([cred EXCEPT !.owner = OtherKey])),
          createUnsigned([age |-> 18]),
          createUnsigned([age |-> 16]),
          [createUnsigned([age |-> 18]) EXCEPT !.witness = [type |-> "unsigned"]] }

\* one call of Credential.validate
Validate ==
    /\ pick = None
    /\ validated = None
    /\ \E credential \in ValidatePool :
            validated' = [ credential |-> credential,
                           result     |-> validateCredential(credential) ]
    /\ UNCHANGED <<pick, pickPrepared, protocolVars, ctxVars, jsonVars, runVars, verifyVars, numericVars,
                 demoVars>>

Pick ==
    /\ pick = None
    /\ validated = None
    /\ \E spec \in PickSpecs, credentials \in PickLists :
            pick' = [ spec        |-> spec,
                      credentials |-> credentials,
                      result      |-> pickCredentials(spec, credentials) ]
    /\ UNCHANGED <<pickPrepared, validated, protocolVars, ctxVars, jsonVars, runVars, verifyVars, numericVars,
                 demoVars>>

\* Presentation.prepare for an https request on the spec and credentials of
\* the recorded pickCredentials call
PickPrepare ==
    /\ pick # None
    /\ pickPrepared = None
    /\ \E claims \in ClaimsOf(pick.spec), action \in Actions, wc \in WalletContexts :
        LET req == PresentationRequestHttps(pick.spec, claims,
                        [action |-> action], Field(1))
        IN  pickPrepared' =
                [ request       |-> req,
                  walletContext |-> wc,
                  result        |-> preparePresentation(req, wc, pick.credentials,
                                                        Field(0)) ]
    /\ UNCHANGED <<pick, validated, protocolVars, ctxVars, jsonVars, runVars, verifyVars, numericVars,
                 demoVars>>

NextPick == Validate \/ Pick \/ PickPrepare

SpecPick == Init /\ [][NextPick]_vars

(***************************************************************************)
(* Serialization of requests: src/src/context.ts, src/src/index.ts         *)
(*                                                                         *)
(* A JSON text is modelled by the JSON value it denotes.  A JSON scalar is *)
(* the pair <<kind, text>>, an object is a record, null is JsonNull.       *)
(***************************************************************************)
JsonNull == [type |-> "null"]

JsonString(s) == <<"string", s>>

JsonNumber(digits) == <<"number", digits>>

\* publicKey.toBase58() and PublicKey.fromBase58(string)
PublicKeyToBase58(pk) == <<"B62", pk>>

PublicKeyFromBase58(str) == str[2]

\* serializeProvable(value) for a Field and for a PublicKey
serializeProvableField(f) == [_type |-> "Field", value |-> FieldToString(f)]

serializeProvablePublicKey(pk) ==
    [_type |-> "PublicKey", value |-> PublicKeyToBase58(pk)]

deserializeProvable(json) ==
    IF json._type = "Field" THEN FieldFrom(json.value)
    ELSE PublicKeyFromBase58(json.value)

serializeSpec(spec) == <<"SpecJSON", spec>>

deserializeSpec(json) == json[2]

\* claims are a flat record of provable values
serializeSimplyNestedProvableValue(claims) ==
    [i \in 1 .. Len(claims) |-> <<claims[i][1], serializeProvableField(claims[i][2])>>]

deserializeNestedProvableValue(json) ==
    [i \in 1 .. Len(json) |-> <<json[i][1], deserializeProvable(json[i][2])>>]

serializeInputContext(context) ==
    IF context = None THEN JsonNull
    ELSE IF context.type = "https"
        THEN [ type        |-> context.type,
               serverNonce |-> serializeProvableField(context.serverNonce),
               action      |-> context.action ]
    ELSE [ type             |-> context.type,
           serverNonce      |-> serializeProvableField(context.serverNonce),
           action           |-> context.action,
           verifierIdentity |->
               [ publicKey |->
                     serializeProvablePublicKey(context.verifierIdentity.publicKey),
                 tokenId   |->
                     serializeProvableField(context.verifierIdentity.tokenId),
                 network   |-> context.verifierIdentity.network ] ]

deserializeHttpsContext(context) ==
    IF context.type # "https" THEN Thrown("Assertion failed")
    ELSE Returned([ type        |-> context.type,
                    action      |-> context.action,
                    serverNonce |-> deserializeProvable(context.serverNonce) ])

deserializeZkAppContextDefaultNetwork(context) ==
    IF context.type # "zk-app" THEN Thrown("Assertion failed")
    ELSE Returned(
            [ type             |-> context.type,
              action           |-> context.action,
              serverNonce      |-> deserializeProvable(context.serverNonce),
              verifierIdentity |->
                  [ publicKey |->
                        deserializeProvable(context.verifierIdentity.publicKey),
                    tokenId   |->
                        deserializeProvable(context.verifierIdentity.tokenId),
                    network   |-> "devnet" ] ])

deserializeZkAppContext(context) ==
    IF context.type # "zk-app" THEN Thrown("Assertion failed")
    ELSE Returned(
            [ type             |-> context.type,
              action           |-> context.action,
              serverNonce      |-> deserializeProvable(context.serverNonce),
              verifierIdentity |->
                  [ publicKey |->
                        deserializeProvable(context.verifierIdentity.publicKey),
                    tokenId   |->
                        deserializeProvable(context.verifierIdentity.tokenId),
                    network   |-> context.verifierIdentity.network ] ])

\* PresentationRequest.noContext(spec, claims)
PresentationRequestTypes == {"no-context", "zk-app", "https"}

\* PresentationRequest.toJSON(request)
PresentationRequestToJSON(req) ==
    [ type         |-> req.type,
      spec         |-> serializeSpec(req.spec),
      claims       |-> serializeSimplyNestedProvableValue(req.claims),
      inputContext |-> serializeInputContext(req.inputContext) ]

\* PresentationRequestSchema.parse(raw): the type is one of the three request
\* types and the inputContext is null or a serialized https or zk-app context
PresentationRequestSchemaParse(raw) ==
    IF /\ raw.type \in PresentationRequestTypes
       /\ raw.inputContext.type \in {"null", "https", "zk-app"}
        THEN Returned(raw)
        ELSE Thrown("ZodError")

requestFromJson(json) ==
    LET spec == deserializeSpec(json.spec)
        claims == deserializeNestedProvableValue(json.claims)
    IN  IF json.type = "no-context"
            THEN Returned(PresentationRequestNoContext(spec, claims))
        ELSE IF json.type = "zk-app"
            THEN LET inputContext == deserializeZkAppContext(json.inputContext)
                 IN  IF ~inputContext.ok THEN inputContext
                     ELSE Returned(ZkAppRequest(spec, claims, inputContext.value))
        ELSE IF json.type = "https"
            THEN LET inputContext == deserializeHttpsContext(json.inputContext)
                 IN  IF ~inputContext.ok THEN inputContext
                     ELSE Returned(HttpsRequest(spec, claims, inputContext.value))
        ELSE Thrown("Invalid presentation request type")

PresentationRequestFromJSONUnchecked(expectedType, json) ==
    LET parsed == PresentationRequestSchemaParse(json)
    IN  IF ~parsed.ok THEN parsed ELSE requestFromJson(parsed.value)

\* PresentationRequest.fromJSON(expectedType, json)
PresentationRequestFromJSON(expectedType, json) ==
    LET parsed == PresentationRequestSchemaParse(json)
        req == requestFromJson(parsed.value)
    IN  IF ~parsed.ok THEN parsed
        ELSE IF ~req.ok THEN req
        ELSE IF req.value.type # expectedType
            THEN Thrown("Expected other request type")
        ELSE req

(***************************************************************************)
(* src/unnamed/part_007: ProvableFactory                                   *)
(***************************************************************************)
\* the names in the `factories` map
RegisteredFactories == {"DynamicString", "DynamicBytes"}

NoProperties == [k \in {} |-> JsonNull]

\* an object with the property when it is given: << >> is an absent property
Property(name, opt) == IF Len(opt) = 0 THEN NoProperties ELSE name :> opt[1]

\* factory.typeSchema.parse(json): the type parameters are present
TypeSchemaOk(json) ==
    hasProperty(json, "maxLength") /\ json.maxLength[1] = "number"

\* factory.typeFromJSON(validated): the constructor made by the factory
typeFromJSON(name, json) == [factory |-> name, maxLength |-> json.maxLength[2]]

\* factory.valueSchema.parse(json.value)
ValueSchemaOk(value) == value[1] = "string"

\* factory.valueFromJSON(type, value): an instance of the constructor
valueFromJSON(type, value) == [type |-> type, value |-> value[2]]

ProvableFactoryFromJSONWithDefault(json) ==
    IF ~hasProperty(json, "_type") THEN Thrown("Expected property _type")
    ELSE IF json._type[1] # "string" THEN Thrown("Invalid type")
    ELSE IF ~TypeSchemaOk(json) THEN Thrown("ZodError")
    ELSE IF json._type[2] \notin RegisteredFactories
        THEN Returned(typeFromJSON("DynamicString", json))
    ELSE Returned(typeFromJSON(json._type[2], json))

\* ProvableFactory.fromJSON(json)
ProvableFactoryFromJSON(json) ==
    IF ~hasProperty(json, "_type") THEN Thrown("Expected property _type")
    ELSE IF json._type[1] # "string" THEN Thrown("Invalid type")
    ELSE IF json._type[2] \notin RegisteredFactories THEN Thrown("Type not registered")
    ELSE IF ~TypeSchemaOk(json) THEN Thrown("ZodError")
    ELSE Returned(typeFromJSON(json._type[2], json))

\* ProvableFactory.valueFromJSON(json)
ProvableFactoryValueFromJSON(json) ==
    IF ~hasProperty(json, "_type") THEN Thrown("Expected property _type")
    ELSE IF json._type[1] # "string" THEN Thrown("Invalid type")
    ELSE IF json._type[2] \notin RegisteredFactories THEN Thrown("Type not registered")
    ELSE IF ~TypeSchemaOk(json) THEN Thrown("ZodError")
    ELSE IF ~hasProperty(json, "value") THEN Thrown("Expected property value")
    ELSE IF ~ValueSchemaOk(json.value) THEN Thrown("ZodError")
    ELSE Returned(valueFromJSON(typeFromJSON(json._type[2], json), json.value))

(***************************************************************************)
(* Specification SpecJson: requests and provable types through JSON        *)
(*                                                                         *)
(*   original       the request handed to PresentationRequest.toJSON       *)
(*   wire           the JSON as it reaches the receiver, and how often it  *)
(*                  was changed on the way                                 *)
(*   parsedRequest  a call of PresentationRequest.fromJSON on the wire     *)
(*   decoded        a call of ProvableFactory.fromJSON / valueFromJSON     *)
(***************************************************************************)
Networks == {"mainnet", "devnet", "testnet"}

JsonRequestsOf(spec, claims) ==
    { PresentationRequestNoContext(spec, claims) }
    \cup { PresentationRequestHttps(spec, claims, [action |-> a], Field(n))
            : a \in Actions, n \in Nonces }
    \cup { PresentationRequestZkApp(spec, claims,
                [ publicKey  |-> pk,
                  tokenId    |-> tokenId,
                  methodName |-> a,
                  network    |-> network,
                  nonce      |-> nonce ])
            : pk \in {"zkAppA", "zkAppB"},
              tokenId \in { << >>, <<Field(7)>> },
              a \in Actions,
              network \in { << >> } \cup { <<nw>> : nw \in Networks },
              nonce \in { << >>, <<Field(1)>> } }

JsonRequests ==
    UNION { UNION { JsonRequestsOf(spec, claims) : claims \in ClaimsOf(spec) }
            : spec \in Specs }

\* what the `type` of a request can be changed to on the wire
WireTypes == PresentationRequestTypes \cup {"ftp"}

\* what the `inputContext` of a request can be changed to on the wire
WireContexts ==
    { JsonNull,
      serializeInputContext([type |-> "https", action |-> "login",
                             serverNonce |-> Field(1)]),
      serializeInputContext([type |-> "zk-app", action |-> "login",
                             serverNonce |-> Field(1),
                             verifierIdentity |->
                                [ publicKey |-> "zkAppA",
                                  tokenId   |-> TokenIdDefault,
                                  network   |-> "devnet" ]]) }

ToJSON ==
    /\ original = None
    /\ decoded = None
    /\ \E req \in JsonRequests :
        /\ original' = req
        /\ wire' = [json |-> PresentationRequestToJSON(req), tampered |-> 0]
    /\ UNCHANGED <<parsedRequest, decoded, protocolVars, ctxVars, pickVars, runVars, verifyVars, numericVars,
                 demoVars>>

TamperWire ==
    /\ wire # None
    /\ parsedRequest = None
    /\ wire.tampered < MaxTamper
    /\ \/ \E t \in WireTypes \ {wire.json.type} :
            wire' = [json |-> [wire.json EXCEPT !.type = t],
                     tampered |-> wire.tampered + 1]
       \/ \E c \in WireContexts \ {wire.json.inputContext} :
            wire' = [json |-> [wire.json EXCEPT !.inputContext = c],
                     tampered |-> wire.tampered + 1]
    /\ UNCHANGED <<original, parsedRequest, decoded, protocolVars, ctxVars, pickVars, runVars, verifyVars, numericVars,
                 demoVars>>

FromJSON ==
    /\ wire # None
    /\ parsedRequest = None
    /\ \E expectedType \in PresentationRequestTypes :
        parsedRequest' =
            [ expectedType |-> expectedType,
              result |-> PresentationRequestFromJSON(expectedType, wire.json) ]
    /\ UNCHANGED <<original, wire, decoded, protocolVars, ctxVars, pickVars, runVars, verifyVars, numericVars,
                 demoVars>>

\* the serialized types and values handed to the factory registry
FactoryJsons ==
    { Property("_type", t) @@ Property("maxLength", m) @@ Property("value", v)
        @@ Property("_isFactory", <<TRUE>>)
        : t \in { << >>, <<JsonNumber("5")>>, <<JsonString("DynamicString")>>,
                  <<JsonString("DynamicBytes")>>, <<JsonString("Field")>>,
                  <<JsonString("NoSuchType")>>, <<JsonString("")>> },
          m \in { << >>, <<JsonNumber("32")>>, <<JsonString("32")>> },
          v \in { << >>, <<JsonString("abc")>>, <<JsonNumber("1")>> } }

FactoryFromJSON ==
    /\ original = None
    /\ decoded = None
    /\ \E json \in FactoryJsons :
        decoded' = [ op |-> "fromJSON", json |-> json,
                     result |-> ProvableFactoryFromJSON(json) ]
    /\ UNCHANGED <<original, wire, parsedRequest, protocolVars, ctxVars, pickVars, runVars, verifyVars, numericVars,
                 demoVars>>

FactoryValueFromJSON ==
    /\ original = None
    /\ decoded = None
    /\ \E json \in FactoryJsons :
        decoded' = [ op |-> "valueFromJSON", json |-> json,
                     result |-> ProvableFactoryValueFromJSON(json) ]
    /\ UNCHANGED <<original, wire, parsedRequest, protocolVars, ctxVars, pickVars, runVars, verifyVars, numericVars,
                 demoVars>>

NextJson ==
    \/ ToJSON
    \/ TamperWire
    \/ FromJSON
    \/ FactoryFromJSON
    \/ FactoryValueFromJSON

SpecJson == Init /\ [][NextJson]_vars

(***************************************************************************)
(* Specification SpecRun: what one run of a verifier and a wallet builds   *)
(*                                                                         *)
(*   entropy   how many values Field.random() has returned so far          *)
(*   built     the requests built so far, each with its constructor and    *)
(*             the context argument the constructor was given              *)
(*   prepares  the calls of Presentation.prepare so far                    *)
(***************************************************************************)
\* the value Field.random() returns on its k-th call (k = 0, 1, ...) of a
\* run: a uniform draw from a field of about 2^254 elements, taken to differ
\* from every earlier draw and from the nonces callers write by hand
FieldRandom(k) == Field(k + 2)

RunSpec == "ageEquals"

RunClaims == << <<"targetAge", Field(18)>> >>

\* the context argument of zkApp and zkAppFromCompiled
RunZkAppContexts ==
    { [ publicKey  |-> "zkAppA",
        tokenId    |-> tokenId,
        methodName |-> "login",
        network    |-> network,
        nonce      |-> nonce ]
        : tokenId \in { << >>, <<Field(5)>> },
          network \in { << >>, <<"mainnet">> },
          nonce   \in { << >>, <<Field(1)>> } }

Built(by, context, req) == [by |-> by, context |-> context, request |-> req]

BuildHttps ==
    /\ Len(built) < MaxRequests
    /\ built' = Append(built,
            Built("https", [action |-> "login"],
                PresentationRequestHttps(RunSpec, RunClaims,
                    [action |-> "login"], FieldRandom(entropy))))
    /\ entropy' = entropy + 1
    /\ UNCHANGED <<prepares, protocolVars, ctxVars, pickVars, jsonVars, verifyVars, numericVars,
                 demoVars>>

BuildHttpsFromCompiled ==
    /\ Len(built) < MaxRequests
    /\ built' = Append(built,
            Built("httpsFromCompiled", [action |-> "login"],
                PresentationRequestHttpsFromCompiled(Precompiled(RunSpec), RunClaims,
                    [action |-> "login"], FieldRandom(entropy))))
    /\ entropy' = entropy + 1
    /\ UNCHANGED <<prepares, protocolVars, ctxVars, pickVars, jsonVars, verifyVars, numericVars,
                 demoVars>>

BuildZkApp ==
    /\ Len(built) < MaxRequests
    /\ \E context \in RunZkAppContexts :
            built' = Append(built,
                Built("zkApp", context,
                    PresentationRequestZkApp(RunSpec, RunClaims, context)))
    /\ UNCHANGED <<entropy, prepares, protocolVars, ctxVars, pickVars, jsonVars, verifyVars, numericVars,
                 demoVars>>

BuildZkAppFromCompiled ==
    /\ Len(built) < MaxRequests
    /\ \E context \in RunZkAppContexts :
            built' = Append(built,
                Built("zkAppFromCompiled", context,
                    PresentationRequestZkAppFromCompiled(Precompiled(RunSpec),
                        RunClaims, context)))
    /\ UNCHANGED <<entropy, prepares, protocolVars, ctxVars, pickVars, jsonVars, verifyVars, numericVars,
                 demoVars>>

BuildNoContext ==
    /\ Len(built) < MaxRequests
    /\ built' = Append(built,
            Built("noContext", None, PresentationRequestNoContext(RunSpec, RunClaims)))
    /\ UNCHANGED <<entropy, prepares, protocolVars, ctxVars, pickVars, jsonVars, verifyVars, numericVars,
                 demoVars>>

RunWalletContext == [verifierIdentity |-> "my-app.xyz"]

\* the credential array of the wallet: the one credential the spec needs
RunCredentials ==
    << CredentialSign(IssuerKey, [owner |-> OwnerKey, data |-> [age |-> 18]]) >>

\* Presentation.prepare for one of the requests built so far; the call draws
\* its client nonce after pickCredentials has returned
RunPrepare ==
    /\ Len(prepares) < MaxPrepares
    /\ \E i \in 1 .. Len(built) :
        LET res == preparePresentation(built[i].request, RunWalletContext,
                        RunCredentials, FieldRandom(entropy))
        IN  /\ prepares' = Append(prepares,
                    [request |-> i, credentials |-> RunCredentials, result |-> res])
            /\ entropy' = IF res.ok THEN entropy + 1 ELSE entropy
    /\ UNCHANGED <<built, protocolVars, ctxVars, pickVars, jsonVars, verifyVars, numericVars,
                 demoVars>>

NextRun ==
    \/ BuildHttps
    \/ BuildHttpsFromCompiled
    \/ BuildZkApp
    \/ BuildZkAppFromCompiled
    \/ BuildNoContext
    \/ RunPrepare

SpecRun == Init /\ [][NextRun]_vars

(***************************************************************************)
(* Specification SpecVerify: one presentation, verified again and again    *)
(*                                                                         *)
(*   subject   a presentation a wallet created: the request and wallet     *)
(*             context it was created for, the context derived for it      *)
(*   compiledPrograms  the specs whose program the verifier has compiled   *)
(*   verdicts  the calls of Presentation.verify on the presentation so     *)
(*             far: request, wallet context and outcome                    *)
(***************************************************************************)
\* the requests of the verifier: no-context requests and an https request
VerifyRequests ==
    { PresentationRequestNoContext("ageEquals", claims) : claims \in ClaimsOf("ageEquals") }
        \cup { PresentationRequestNoContext("ownerOf", << >>),
               PresentationRequestHttps("ageEquals", << <<"targetAge", Field(18)>> >>,
                    [action |-> "login"], Field(0)) }

\* a wallet creates the presentation with the owner's key and credential
VerifyCreate ==
    /\ subject = None
    /\ \E req \in VerifyRequests, wc \in WalletContexts, n \in Nonces :
        LET p == preparePresentation(req, wc, RunCredentials, Field(n))
            res == createPresentation(OwnerKey, req, wc, RunCredentials, Field(n))
        IN  /\ res.ok
            /\ subject' = [ request       |-> req,
                            walletContext |-> wc,
                            context       |-> p.context,
                            presentation  |-> res.presentation ]
    /\ UNCHANGED <<compiledPrograms, verdicts, protocolVars, ctxVars, pickVars, jsonVars,
                   runVars, numericVars,
                 demoVars>>

\* Presentation.verify of the presentation against any request of the verifier
VerifyCall ==
    /\ subject # None
    /\ Len(verdicts) < MaxVerifies
    /\ \E req \in VerifyRequests, wc \in WalletContexts :
        LET out == PresentationVerify(compiledPrograms, req, subject.presentation, wc)
        IN  /\ verdicts' = Append(verdicts,
                    [request |-> req, walletContext |-> wc, result |-> out.result])
            /\ compiledPrograms' = out.compiled
    /\ UNCHANGED <<subject, protocolVars, ctxVars, pickVars, jsonVars, runVars, numericVars,
                 demoVars>>

NextVerify == VerifyCreate \/ VerifyCall

SpecVerify == Init /\ [][NextVerify]_vars

(***************************************************************************)
(* src/src/dynamic/gadgets-numeric.ts: the numeric types                   *)
(*                                                                         *)
(* A UInt8, UInt32, UInt64 or Field is [type, value], an Int64 is          *)
(* [type, magnitude, sgn] with sgn 1 or -1.  The methods of the types are  *)
(* those of o1js: the unsigned types and Int64 reject a result outside     *)
(* their range, the field computes modulo its order.                       *)
(***************************************************************************)
numericTypeOrder == <<"UInt8", "UInt32", "UInt64", "Int64", "Field">>

RECURSIVE Pow2(_)
Pow2(n) == IF n = 0 THEN 1 ELSE 2 * Pow2(n - 1)

\* the largest value of an unsigned type, and the largest Int64 magnitude
MaxOf(type) ==
    IF type = "UInt8" THEN Pow2(NumericBits) - 1
    ELSE IF type = "UInt32" THEN Pow2(NumericBits + 1) - 1
    ELSE Pow2(NumericBits + 2) - 1

IsPrime(n) == n > 1 /\ \A d \in 2 .. n - 1 : n % d # 0

\* the order of the field: the least prime above twice the Int64 range
FieldOrder ==
    CHOOSE q \in Pow2(NumericBits + 3) .. Pow2(NumericBits + 4) :
        /\ IsPrime(q)
        /\ \A r \in Pow2(NumericBits + 3) .. q - 1 : ~IsPrime(r)

UInt(type, value) == [type |-> type, value |-> value]

FieldOf(value) == [type |-> "Field", value |-> value % FieldOrder]

Int64Create(magnitude, sgn) == [type |-> "Int64", magnitude |-> magnitude, sgn |-> sgn]

\* the integer an Int64 stands for, and the Int64 of an integer
Int64ToInt(x) == x.sgn * x.magnitude

Int64From(i) == IF i < 0 THEN Int64Create(0 - i, -1) ELSE Int64Create(i, 1)

\* Int64.fromUnsigned(x: UInt64)
Int64FromUnsigned(x) == Int64Create(x.value, 1)

\* int64.toField(): sgn * magnitude in the field
Int64ToField(x) == FieldOf(Int64ToInt(x) + FieldOrder)

\* uint.toUInt64(), uint8.toUInt32(), Type.toFields(uint)[0]
toUInt64(x) == UInt("UInt64", x.value)

toUInt32(x) == UInt("UInt32", x.value)

toFields0(x) == FieldOf(x.value)

\* a result of an unsigned type: inside the range of the type, or an error
UIntResult(type, v) ==
    IF v < 0 \/ v > MaxOf(type) THEN Thrown("out of range")
    ELSE Returned(UInt(type, v))

Int64Result(i) ==
    IF i > MaxOf("Int64") \/ 0 - i > MaxOf("Int64") THEN Thrown("out of range")
    ELSE Returned(Int64From(i))

Abs(i) == IF i < 0 THEN 0 - i ELSE i

\* division of integers rounding towards zero
DivTruncated(i, j) ==
    IF (i < 0) = (j < 0) THEN Abs(i) \div Abs(j) ELSE 0 - (Abs(i) \div Abs(j))

\* the inverse of a non-zero field element
FieldInverse(v) == CHOOSE w \in 1 .. FieldOrder - 1 : (v * w) % FieldOrder = 1

\* a.add(b), a.sub(b), a.mul(b), a.div(b) for a and b of one type
MethodOf(op, a, b) ==
    IF a.type = "Field"
        THEN IF op = "add" THEN Returned(FieldOf(a.value + b.value))
             ELSE IF op = "sub" THEN Returned(FieldOf(a.value + FieldOrder - b.value))
             ELSE IF op = "mul" THEN Returned(FieldOf(a.value * b.value))
             ELSE IF b.value = 0 THEN Thrown("division by zero")
             ELSE Returned(FieldOf(a.value * FieldInverse(b.value)))
    ELSE IF a.type = "Int64"
        THEN IF op = "add" THEN Int64Result(Int64ToInt(a) + Int64ToInt(b))
             ELSE IF op = "sub" THEN Int64Result(Int64ToInt(a) - Int64ToInt(b))
             ELSE IF op = "mul" THEN Int64Result(Int64ToInt(a) * Int64ToInt(b))
             ELSE IF b.magnitude = 0 THEN Thrown("division by zero")
             ELSE Int64Result(DivTruncated(Int64ToInt(a), Int64ToInt(b)))
    ELSE IF op = "add" THEN UIntResult(a.type, a.value + b.value)
    ELSE IF op = "sub" THEN UIntResult(a.type, a.value - b.value)
    ELSE IF op = "mul" THEN UIntResult(a.type, a.value * b.value)
    ELSE IF b.value = 0 THEN Thrown("division by zero")
    ELSE UIntResult(a.type, a.value \div b.value)

\* numericTypeOrder.findIndex((type) => x instanceof type), 1-based
TypeIndex(x) == FindIndex([n \in 1 .. Len(numericTypeOrder) |-> x.type = numericTypeOrder[n]])

Max(i, j) == IF i > j THEN i ELSE j

\* the conversion of one operand of convertToMaximum to resultType
ConvertTo(resultType, x) ==
    IF resultType = "Field"
        THEN IF x.type = "Int64" THEN Int64ToField(x) ELSE toFields0(x)
    ELSE IF resultType = "Int64"
        THEN IF x.type = "UInt64" THEN Int64FromUnsigned(x)
             ELSE Int64FromUnsigned(toUInt64(x))
    ELSE IF resultType = "UInt64" THEN toUInt64(x)
    ELSE toUInt32(x)

\* a conversion that leaves the right operand as it is
convertToMaximumLeftOnly(left, right) ==
    LET leftTypeIndex == TypeIndex(left)
        rightTypeIndex == TypeIndex(right)
        resultType == numericTypeOrder[Max(leftTypeIndex, rightTypeIndex)]
    IN  IF leftTypeIndex = 0 THEN Thrown("left is not a numeric type")
        ELSE IF rightTypeIndex = 0 THEN Thrown("right is not a numeric type")
        ELSE Returned(<< IF leftTypeIndex < rightTypeIndex
                            THEN ConvertTo(resultType, left) ELSE left,
                         right >>)

convertToMaximum(left, right) ==
    LET leftTypeIndex == TypeIndex(left)
        rightTypeIndex == TypeIndex(right)
        resultType == numericTypeOrder[Max(leftTypeIndex, rightTypeIndex)]
    IN  IF leftTypeIndex = 0 THEN Thrown("left is not a numeric type")
        ELSE IF rightTypeIndex = 0 THEN Thrown("right is not a numeric type")
        ELSE Returned(<< IF leftTypeIndex < rightTypeIndex
                            THEN ConvertTo(resultType, left) ELSE left,
                         IF leftTypeIndex > rightTypeIndex
                            THEN ConvertTo(resultType, right) ELSE right >>)

\* Numeric.add, subtract, multiply, divide
NumericArithmetic(op, left, right) ==
    LET c == convertToMaximum(left, right)
    IN  IF ~c.ok THEN c ELSE MethodOf(op, c.value[1], c.value[2])

\* an Int64 comparison that compares magnitudes the same way for both signs
lessThanInt64Unsigned(left, right) ==
    LET magnitudeLessThan == left.magnitude < right.magnitude
        unequalSign == left.sgn * right.sgn = -1
        leftNegative == left.sgn = -1
    IN  IF unequalSign THEN leftNegative ELSE magnitudeLessThan

lessThanInt64(left, right) ==
    LET magnitudeLessThan == left.magnitude < right.magnitude
        magnitudeEqual == left.magnitude = right.magnitude
        magnitudeGreaterThan == ~magnitudeLessThan /\ ~magnitudeEqual
        unequalSign == left.sgn * right.sgn = -1
        leftNegative == left.sgn = -1
    IN  IF unequalSign THEN leftNegative
        ELSE IF leftNegative THEN magnitudeGreaterThan ELSE magnitudeLessThan

lessThanOrEqualInt64(left, right) ==
    LET magnitudeLessThanOrEqual == left.magnitude <= right.magnitude
        magnitudeEqual == left.magnitude = right.magnitude
        magnitudeGreaterThanOrEqual == ~magnitudeLessThanOrEqual \/ magnitudeEqual
        unequalSign == left.sgn * right.sgn = -1
        leftNegative == left.sgn = -1
    IN  IF unequalSign THEN leftNegative
        ELSE IF leftNegative THEN magnitudeGreaterThanOrEqual
        ELSE magnitudeLessThanOrEqual

NumericLessThan(left, right) ==
    LET c == convertToMaximum(left, right)
    IN  IF ~c.ok THEN c
        ELSE IF c.value[1].type = "Int64"
            THEN Returned(lessThanInt64(c.value[1], c.value[2]))
        ELSE Returned(c.value[1].value < c.value[2].value)

NumericLessThanOrEqual(left, right) ==
    LET c == convertToMaximum(left, right)
    IN  IF ~c.ok THEN c
        ELSE IF c.value[1].type = "Int64"
            THEN Returned(lessThanOrEqualInt64(c.value[1], c.value[2]))
        ELSE Returned(c.value[1].value <= c.value[2].value)

(***************************************************************************)
(* Specification SpecNumeric: one call of a numeric gadget                 *)
(*                                                                         *)
(*   numeric  the call: gadget, operands, converted operands and result    *)
(***************************************************************************)
\* every value of every numeric type, an Int64 of sign -1 and magnitude 0,
\* and a value that is of no numeric type
NumericValues ==
    { UInt("UInt8", v) : v \in 0 .. MaxOf("UInt8") }
        \cup { UInt("UInt32", v) : v \in 0 .. MaxOf("UInt32") }
        \cup { UInt("UInt64", v) : v \in 0 .. MaxOf("UInt64") }
        \cup { Int64Create(m, sgn) : m \in 0 .. MaxOf("Int64"), sgn \in {1, -1} }
        \cup { FieldOf(v) : v \in 0 .. FieldOrder - 1 }
        \cup { [type |-> "Bool", value |-> 1] }

NumericCall(op, left, right, result) ==
    [ op        |-> op,
      left      |-> left,
      right     |-> right,
      converted |-> convertToMaximum(left, right),
      result    |-> result ]

Add ==
    /\ numeric = None
    /\ \E left \in NumericValues, right \in NumericValues :
            numeric' = NumericCall("add", left, right,
                            NumericArithmetic("add", left, right))
    /\ UNCHANGED <<protocolVars, ctxVars, pickVars, jsonVars, runVars, verifyVars,
                 demoVars>>

Subtract ==
    /\ numeric = None
    /\ \E left \in NumericValues, right \in NumericValues :
            numeric' = NumericCall("subtract", left, right,
                            NumericArithmetic("sub", left, right))
    /\ UNCHANGED <<protocolVars, ctxVars, pickVars, jsonVars, runVars, verifyVars,
                 demoVars>>

Multiply ==
    /\ numeric = None
    /\ \E left \in NumericValues, right \in NumericValues :
            numeric' = NumericCall("multiply", left, right,
                            NumericArithmetic("mul", left, right))
    /\ UNCHANGED <<protocolVars, ctxVars, pickVars, jsonVars, runVars, verifyVars,
                 demoVars>>

Divide ==
    /\ numeric = None
    /\ \E left \in NumericValues, right \in NumericValues :
            numeric' = NumericCall("divide", left, right,
                            NumericArithmetic("div", left, right))
    /\ UNCHANGED <<protocolVars, ctxVars, pickVars, jsonVars, runVars, verifyVars,
                 demoVars>>

LessThan ==
    /\ numeric = None
    /\ \E left \in NumericValues, right \in NumericValues :
            numeric' = NumericCall("lessThan", left, right,
                            NumericLessThan(left, right))
    /\ UNCHANGED <<protocolVars, ctxVars, pickVars, jsonVars, runVars, verifyVars,
                 demoVars>>

LessThanOrEqual ==
    /\ numeric = None
    /\ \E left \in NumericValues, right \in NumericValues :
            numeric' = NumericCall("lessThanOrEqual", left, right,
                            NumericLessThanOrEqual(left, right))
    /\ UNCHANGED <<protocolVars, ctxVars, pickVars, jsonVars, runVars, verifyVars,
                 demoVars>>

NextNumeric ==
    \/ Add
    \/ Subtract
    \/ Multiply
    \/ Divide
    \/ LessThan
    \/ LessThanOrEqual

SpecNumeric == Init /\ [][NextNumeric]_vars

(***************************************************************************)
(* src/examples/web-demo/api-server/action-zkpass.ts                       *)
(* Specification SpecDemo: the demo verifier for zkPass presentations      *)
(*                                                                         *)
(*   openRequests  the keys of the map openRequests: the server nonces, as *)
(*                 strings, of the requests handed out and not yet used;   *)
(*                 the request stored under a key is the one built with    *)
(*                 that server nonce, its other parts are constants        *)
(*   issued        the requests built so far                               *)
(*   calls         the calls of verifyZkPass: the presentation, whether    *)
(*                 the call waits for Presentation.verify or has ended,    *)
(*                 and how it ended                                        *)
(*   nullifiers    the nullifier store                                     *)
(*                                                                         *)
(* A call of verifyZkPass runs up to its await in one step and from there  *)
(* to its end in another; steps of other calls can come between the two.   *)
(***************************************************************************)
\* the server nonce of the k-th request, as the key of openRequests
RequestKey(k) == FieldToString(FieldRandom(k))

\* createRequest()
CreateRequest ==
    /\ issued < MaxRequests
    /\ openRequests' = openRequests \cup {RequestKey(issued)}
    /\ issued' = issued + 1
    /\ UNCHANGED <<calls, nullifiers>>
    /\ UNCHANGED <<protocolVars, ctxVars, pickVars, jsonVars, runVars, verifyVars,
                   numericVars>>

\* the check of a presentation that fails: none, Presentation.verify, or
\* the checks of the zkPass public input
DemoFailures == {"none", "invalid proof", "invalid schema id"}

\* the presentations a client can submit: for a request that was handed out
\* or for a server nonce that never was
DemoPresentations ==
    [ serverNonce : {RequestKey(k) : k \in 0 .. issued - 1}
                        \cup {FieldToString(Field(0))},
      nullifier   : {"nullifier"},
      fails       : DemoFailures ]

DemoCall(pres, pc, result) == [presentation |-> pres, pc |-> pc, result |-> result]

\* verifyZkPass(presentationJson) up to `await Presentation.verify`
Submit ==
    /\ Len(calls) < MaxSubmissions
    /\ \E pres \in DemoPresentations :
            LET nonce == pres.serverNonce
            IN  calls' = Append(calls,
                    IF nonce \notin openRequests
                        THEN DemoCall(pres, "done", Thrown("Unknown presentation"))
                        ELSE DemoCall(pres, "awaiting", None))
    /\ UNCHANGED <<openRequests, issued, nullifiers>>
    /\ UNCHANGED <<protocolVars, ctxVars, pickVars, jsonVars, runVars, verifyVars,
                   numericVars>>

\* verifyZkPass from the result of Presentation.verify to its end
Resume ==
    /\ \E c \in DOMAIN calls :
            /\ calls[c].pc = "awaiting"
            /\ LET pres == calls[c].presentation
               IN  IF pres.fails # "none"
                       THEN /\ calls' = [calls EXCEPT ![c] =
                                    DemoCall(pres, "done", Thrown(pres.fails))]
                            /\ UNCHANGED <<openRequests, nullifiers>>
                       ELSE /\ calls' = [calls EXCEPT ![c] =
                                    DemoCall(pres, "done", Returned(None))]
                            /\ nullifiers' = nullifiers \cup {pres.nullifier}
                            /\ openRequests' = openRequests \ {pres.serverNonce}
    /\ UNCHANGED issued
    /\ UNCHANGED <<protocolVars, ctxVars, pickVars, jsonVars, runVars, verifyVars,
                   numericVars>>

NextDemo ==
    \/ CreateRequest
    \/ Submit
    \/ Resume

SpecDemo == Init /\ [][NextDemo]_vars

(***************************************************************************)
(* Claims about a run (checked under SpecRun)                              *)
(***************************************************************************)
\* the serverNonce a request carries: none for a request without inputContext
HasServerNonce(req) == req.inputContext # None

\* C22: every request built by a request constructor (noContext, https,
\* zkApp and their FromCompiled variants) carries a freshly allocated
\* serverNonce: no two requests built in one run share a serverNonce.
C22_FreshServerNonce ==
    /\ \A i \in 1 .. Len(built) : HasServerNonce(built[i].request)
    /\ \A i, j \in 1 .. Len(built) :
            (i # j) =>
                built[i].request.inputContext.serverNonce
                    # built[j].request.inputContext.serverNonce

ZkAppPrepared(k) ==
    /\ prepares[k].result.ok
    /\ built[prepares[k].request].by \in {"zkApp", "zkAppFromCompiled"}

\* the argument of ProvablePresentation.verify that has the values the
\* request was built with; its tokenId is not optional
SameValues(context) ==
    [context EXCEPT !.tokenId = OrElse(context.tokenId, TokenIdDefault)]

\* the provable presentation finalized from prepare call k
PreparedPresentation(k) ==
    ProvablePresentationFrom(
        Precompiled(built[prepares[k].request].request.spec),
        [ claims      |-> built[prepares[k].request].request.claims,
          clientNonce |-> prepares[k].result.clientNonce ])

\* C29: for a request built by zkApp/zkAppFromCompiled with {publicKey,
\* tokenId, methodName, network, nonce}, the context ProvablePresentation.verify
\* recomputes from the same values (omitted network meaning 'devnet',
\* omitted nonce meaning 0) equals the context the wallet derived in prepare.
C29_ZkAppContextRecomputed ==
    \A k \in 1 .. Len(prepares) :
        ZkAppPrepared(k) =>
            ProvablePresentationContextHash(PreparedPresentation(k),
                    SameValues(built[prepares[k].request].context))
                = prepares[k].result.context

\* prepare calls for a request built with network and nonce omitted and for
\* one built with both given
C29_Witness ==
    /\ Len(prepares) = 2
    /\ ZkAppPrepared(1)
    /\ ZkAppPrepared(2)
    /\ built[prepares[1].request].context.network = << >>
    /\ built[prepares[1].request].context.nonce = << >>
    /\ built[prepares[2].request].context.network # << >>
    /\ built[prepares[2].request].context.nonce # << >>
    /\ built[prepares[2].request].by = "zkAppFromCompiled"
    /\ prepares[1].result.context # prepares[2].result.context

(***************************************************************************)
(* Claims about the numeric gadgets (checked under SpecNumeric)            *)
(***************************************************************************)
NumericTypes == {"UInt8", "UInt32", "UInt64", "Int64", "Field"}

\* the total order on the numeric types: UInt8 < UInt32 < UInt64 < Int64 < Field
TypeRank ==
    [UInt8 |-> 1, UInt32 |-> 2, UInt64 |-> 3, Int64 |-> 4, Field |-> 5]

WiderType(s, t) == IF TypeRank[s] >= TypeRank[t] THEN s ELSE t

\* the number a numeric value stands for, as an element of the field
InField(x) ==
    IF x.type = "Int64" THEN (Int64ToInt(x) + FieldOrder) % FieldOrder
    ELSE x.value % FieldOrder

BothNumeric ==
    /\ numeric # None
    /\ numeric.left.type \in NumericTypes
    /\ numeric.right.type \in NumericTypes

IsArithmetic == numeric.op \in {"add", "subtract", "multiply", "divide"}

\* C25: for every pair of numeric operands, Numeric.add, subtract, multiply,
\* divide, lessThan and lessThanOrEqual first convert both operands to the
\* wider of the two operand types in the order UInt8 < UInt32 < UInt64 <
\* Int64 < Field, whichever operand comes first: both converted operands have
\* the wider type and stand for the same numbers as before, swapping the
\* arguments swaps the converted operands, and an arithmetic result has the
\* wider type.
C25_ConvertToWiderType ==
    BothNumeric =>
        LET wider == WiderType(numeric.left.type, numeric.right.type)
            swapped == convertToMaximum(numeric.right, numeric.left)
        IN  /\ numeric.converted.ok
            /\ numeric.converted.value[1].type = wider
            /\ numeric.converted.value[2].type = wider
            /\ InField(numeric.converted.value[1]) = InField(numeric.left)
            /\ InField(numeric.converted.value[2]) = InField(numeric.right)
            /\ swapped.ok
            /\ swapped.value[1] = numeric.converted.value[2]
            /\ swapped.value[2] = numeric.converted.value[1]
            /\ (IsArithmetic /\ numeric.result.ok) =>
                    numeric.result.value.type = wider
            /\ (~IsArithmetic) =>
                    /\ numeric.result.ok
                    /\ numeric.result.value \in BOOLEAN

\* a product of a UInt8 and a negative Int64, and its Int64 result
C25_Witness ==
    /\ BothNumeric
    /\ numeric.op = "multiply"
    /\ numeric.left.type = "UInt8"
    /\ numeric.left.value = 2
    /\ numeric.right.type = "Int64"
    /\ numeric.right.sgn = -1
    /\ numeric.right.magnitude = 3
    /\ numeric.result = Returned(Int64Create(6, -1))

\* an Int64 in canonical form: zero has the sign 1
IsCanonical(x) == x.magnitude = 0 => x.sgn = 1

BothCanonicalInt64 ==
    /\ numeric # None
    /\ numeric.left.type = "Int64"
    /\ numeric.right.type = "Int64"
    /\ IsCanonical(numeric.left)
    /\ IsCanonical(numeric.right)

\* C28: for Int64 operands a and b in canonical form (a zero magnitude has
\* the positive sign), Numeric.lessThan(a, b) is true exactly when a < b as
\* signed integers, and Numeric.lessThanOrEqual(a, b) exactly when a <= b.
C28_Int64Comparison ==
    BothCanonicalInt64 =>
        /\ numeric.op = "lessThan" =>
                numeric.result =
                    Returned(Int64ToInt(numeric.left) < Int64ToInt(numeric.right))
        /\ numeric.op = "lessThanOrEqual" =>
                numeric.result =
                    Returned(Int64ToInt(numeric.left) <= Int64ToInt(numeric.right))

\* two negative Int64, the left one below the right one
C28_Witness ==
    /\ BothCanonicalInt64
    /\ numeric.op = "lessThan"
    /\ numeric.left.sgn = -1
    /\ numeric.right.sgn = -1
    /\ numeric.left.magnitude > numeric.right.magnitude
    /\ numeric.result = Returned(TRUE)

(***************************************************************************)
(* Claims about the demo verifier (checked under SpecDemo)                 *)
(***************************************************************************)
Accepted(c) == calls[c].pc = "done" /\ calls[c].result.ok

\* C26: the demo verifier accepts a given presentation at most once, also
\* when submissions of it are in flight together while one of them awaits
\* Presentation.verify: of the calls of verifyZkPass with one presentation
\* at most one ends without an error.
C26_AcceptedAtMostOnce ==
    \A c \in DOMAIN calls, e \in DOMAIN calls :
        (/\ c # e
         /\ calls[c].presentation = calls[e].presentation
         /\ Accepted(c)) => ~Accepted(e)

(***************************************************************************)
(* Claims about repeated verification (checked under SpecVerify)           *)
(***************************************************************************)
\* verdict k is on a no-context request with the spec and claims of the
\* no-context request the presentation was created for
SameNoContext(k) ==
    /\ subject.request.type = "no-context"
    /\ verdicts[k].request.type = "no-context"
    /\ verdicts[k].request.spec = subject.request.spec
    /\ verdicts[k].request.claims = subject.request.claims

\* C24: a no-context request has no context binding: its deriveContext
\* returns the constant 0 whatever the clientNonce, vkHash, claims and wallet
\* context are, so a presentation created for one no-context request verifies
\* against every no-context request with the same spec and claims.
C24_NoContextUnbound ==
    /\ (subject # None /\ subject.request.type = "no-context") =>
            subject.context = Field(0)
    /\ \A k \in 1 .. Len(verdicts) :
            SameNoContext(k) =>
                /\ verdicts[k].result.ok
                /\ verdicts[k].result.outputClaim = subject.presentation.outputClaim

\* created with client nonce 1 for one wallet context, accepted under the other
C24_Witness ==
    /\ Len(verdicts) > 0
    /\ SameNoContext(1)
    /\ subject.presentation.clientNonce = Field(1)
    /\ verdicts[1].walletContext # subject.walletContext
    /\ verdicts[1].result.ok

CredentialInputs(spec) == SelectSeq(SpecInputs(spec), isCredentialSpec)

CredentialInputNames(spec) ==
    { CredentialInputs(spec)[i].name : i \in 1 .. Len(CredentialInputs(spec)) }

\* every reordering of a credential array
Reorderings(credentials) ==
    { [i \in 1 .. Len(credentials) |-> credentials[f[i]]]
        : f \in Permutations(1 .. Len(credentials)) }

Picked == pick # None

Keyed(c) == c.key # "undefined"

\* every supplied credential carries a key naming a distinct credential input
AllKeyedDistinct ==
    /\ \A i \in 1 .. Len(pick.credentials) :
            pick.credentials[i].key \in CredentialInputNames(pick.spec)
    /\ \A i, j \in 1 .. Len(pick.credentials) :
            pick.credentials[i].key = pick.credentials[j].key => i = j

AllUnkeyed == \A i \in 1 .. Len(pick.credentials) : ~Keyed(pick.credentials[i])

\* C11: when every supplied credential carries a key naming a distinct
\* credential input, every permutation of the supplied array yields the same
\* outcome, and each input a credential is keyed for is mapped to that
\* credential.
C11_KeyedOrderIndependent ==
    (Picked /\ AllKeyedDistinct) =>
        /\ \A p \in Reorderings(pick.credentials) :
                pickCredentials(pick.spec, p) = pick.result
        /\ pick.result.ok =>
                \A i \in 1 .. Len(pick.credentials) :
                    pick.result.credentialsUsed[pick.credentials[i].key]
                        = pick.credentials[i]

C11_Witness ==
    /\ Picked /\ AllKeyedDistinct
    /\ pick.spec = "passportAndLicense"
    /\ Len(pick.credentials) = 2
    /\ pick.credentials[1].key = "driverLicense"
    /\ pick.credentials[2].key = "passport"
    /\ pick.credentials[1].credential # pick.credentials[2].credential
    /\ pick.result.ok

\* C12: with unkeyed credentials and one credential input, the input gets
\* the first supplied credential in array order that passes
\* credentialMatchesSpec, earlier non-matching ones being skipped.
C12_FirstMatchInArrayOrder ==
    (Picked /\ AllUnkeyed /\ Len(CredentialInputs(pick.spec)) = 1) =>
        LET input == CredentialInputs(pick.spec)[1]
            matching == { i \in 1 .. Len(pick.credentials) :
                            credentialMatchesSpec(input, pick.credentials[i]) }
        IN  IF matching = {}
                THEN ~pick.result.ok /\ pick.result.missing = <<input.name>>
                ELSE /\ pick.result.ok
                     /\ pick.result.credentialsUsed[input.name]
                            = pick.credentials[CHOOSE i \in matching :
                                                \A j \in matching : i <= j]

C12_Witness ==
    /\ Picked /\ AllUnkeyed
    /\ pick.spec = "ageEquals"
    /\ Len(pick.credentials) = 2
    /\ ~credentialMatchesSpec(CredentialInputs(pick.spec)[1], pick.credentials[1])
    /\ credentialMatchesSpec(CredentialInputs(pick.spec)[1], pick.credentials[2])
    /\ pick.result.ok
    /\ pick.result.credentialsUsed.signedData = pick.credentials[2]

\* the set of elements of a sequence
Range(seq) == { seq[i] : i \in 1 .. Len(seq) }

\* C13: pickCredentials fails with the missing-credentials error exactly
\* when some credential input is unresolved after both passes; the error
\* names every unresolved input and no resolved one; supplied credentials
\* that stay unused never cause a failure.
C13_MissingCredentials ==
    Picked =>
        LET needed == CredentialInputs(pick.spec)
            st1 == KeyedPass(needed, 1,
                        [ used |-> NoCredentialsUsed,
                          credentials |-> pick.credentials,
                          stillNeeded |-> << >> ])
            st2 == MatchPass(st1.credentials, 1, st1)
            unresolved == CredentialInputNames(pick.spec) \ DOMAIN st2.used
        IN  /\ pick.result.ok <=> unresolved = {}
            /\ ~pick.result.ok =>
                    /\ pick.result.error = "Missing credentials"
                    /\ Range(pick.result.missing) = unresolved
            /\ pick.result.ok =>
                    DOMAIN pick.result.credentialsUsed = CredentialInputNames(pick.spec)

C13_Witness ==
    /\ Picked
    /\ pick.spec = "passportAndLicense"
    /\ Len(pick.credentials) = 2
    /\ ~pick.result.ok
    /\ pick.result.missing = <<"driverLicense">>

\* the specified procedure: each still-unresolved input, in declaration
\* order, takes the first remaining credential in array order that matches
RECURSIVE SpecifiedPass(_, _, _)
SpecifiedPass(needed, i, st) ==
    IF i > Len(needed) THEN st
    ELSE LET k == FindIndex([n \in 1 .. Len(st.credentials) |->
                        credentialMatchesSpec(needed[i], st.credentials[n])])
         IN  IF k = 0
                THEN SpecifiedPass(needed, i + 1,
                        [st EXCEPT !.missing = @ \cup {needed[i].name}])
                ELSE SpecifiedPass(needed, i + 1,
                        [st EXCEPT
                            !.used = @ @@ (needed[i].name :> st.credentials[k]),
                            !.credentials = RemoveAt(@, k)])

SpecifiedPick(spec, credentials) ==
    SpecifiedPass(CredentialInputs(spec), 1,
        [used |-> NoCredentialsUsed, credentials |-> credentials, missing |-> {}])

\* C14: for every spec and every list of unkeyed credentials, the outcome of
\* pickCredentials (the assignment, or the set of missing inputs) equals the
\* outcome of the specified procedure.
C14_SameAsSpecifiedProcedure ==
    (Picked /\ AllUnkeyed) =>
        LET specified == SpecifiedPick(pick.spec, pick.credentials)
        IN  IF specified.missing = {}
                THEN pick.result.ok /\ pick.result.credentialsUsed = specified.used
                ELSE ~pick.result.ok
                        /\ Range(pick.result.missing) = specified.missing

C14_Witness ==
    /\ Picked /\ AllUnkeyed
    /\ pick.spec = "licenseAndPassport"
    /\ Len(pick.credentials) = 2
    /\ pick.result.ok
    /\ pick.result.credentialsUsed.passport = pick.credentials[1]
    /\ pick.result.credentialsUsed.driverLicense = pick.credentials[2]

\* C15: a credential that carries a key is only ever assigned to the input
\* its key names; a keyed credential whose key names no unresolved input is
\* never used to fill another input in the unkeyed pass.
C15_KeyedOnlyForNamedInput ==
    (Picked /\ pick.result.ok) =>
        \A name \in DOMAIN pick.result.credentialsUsed :
            Keyed(pick.result.credentialsUsed[name])
                => pick.result.credentialsUsed[name].key = name

\* two inputs and two unkeyed credentials, the first matching both inputs and
\* the second only the first input
AmbiguousPick ==
    /\ Picked /\ AllUnkeyed
    /\ Len(CredentialInputs(pick.spec)) = 2
    /\ Len(pick.credentials) = 2
    /\ credentialMatchesSpec(CredentialInputs(pick.spec)[1], pick.credentials[1])
    /\ credentialMatchesSpec(CredentialInputs(pick.spec)[2], pick.credentials[1])
    /\ credentialMatchesSpec(CredentialInputs(pick.spec)[1], pick.credentials[2])
    /\ ~credentialMatchesSpec(CredentialInputs(pick.spec)[2], pick.credentials[2])

\* C16: pickCredentials is greedy and non-backtracking: for inputs A, B and
\* unkeyed credentials [c1, c2] where c1 matches both inputs and c2 matches
\* only A, a complete matching assignment exists and pickCredentials still
\* raises the missing-credentials error.
C16_GreedyNotComplete ==
    AmbiguousPick =>
        /\ CompleteAssignments(pick.spec, pick.credentials) # {}
        /\ ~pick.result.ok
        /\ pick.result.error = "Missing credentials"

C16_Witness ==
    /\ AmbiguousPick
    /\ pick.spec = "passportAndLicense"
    /\ pick.result.missing = <<"driverLicense">>

PickPreparedOk == pickPrepared # None /\ pickPrepared.result.ok

\* the fields that bind the context and the credentials used: the context,
\* then hash and issuer of the credential of every credential input, in the
\* declaration order of the inputs
BoundFields(spec, context, credentialsUsed) ==
    LET inputs == CredentialInputs(spec)
    IN  <<context>> \o
        [i \in 1 .. 2 * Len(inputs) |->
            IF i % 2 = 1
                THEN hashCredential(credentialsUsed[inputs[(i + 1) \div 2].name].credential)
                ELSE NativeIssuer(credentialsUsed[inputs[i \div 2].name].witness)]

TimesUsed(c) ==
    Cardinality({ name \in DOMAIN pick.result.credentialsUsed :
                    pick.result.credentialsUsed[name] = c })

TimesSupplied(c) ==
    Cardinality({ i \in 1 .. Len(pick.credentials) : pick.credentials[i] = c })

\* C30: when pickCredentials succeeds, credentialsUsed has exactly one entry
\* per credential input of the spec and none for claim or constant inputs,
\* and no supplied credential (an array position) is given to two inputs:
\* a credential is used at most as often as it occurs in the array.
C30_OneToOneMatching ==
    (Picked /\ pick.result.ok) =>
        /\ DOMAIN pick.result.credentialsUsed = CredentialInputNames(pick.spec)
        /\ Len(pick.result.credentialsAndSpecs) = Len(CredentialInputs(pick.spec))
        /\ \A name \in DOMAIN pick.result.credentialsUsed :
                /\ pick.result.credentialsUsed[name] \in Range(pick.credentials)
                /\ TimesUsed(pick.result.credentialsUsed[name])
                        <= TimesSupplied(pick.result.credentialsUsed[name])

\* two inputs are filled, one by a keyed credential that the other input's
\* spec matches as well, and the spec has a constant input besides
C30_Witness ==
    /\ Picked
    /\ pick.result.ok
    /\ pick.spec = "passportAndLicense"
    /\ Len(pick.credentials) = 2
    /\ pick.credentials[1].key = "passport"
    /\ credentialMatchesSpec(CredentialInputs(pick.spec)[2], pick.credentials[1])
    /\ pick.result.credentialsUsed["passport"] = pick.credentials[1]
    /\ pick.result.credentialsUsed["driverLicense"] = pick.credentials[2]
    /\ \E i \in 1 .. Len(SpecInputs(pick.spec)) :
            ~isCredentialSpec(SpecInputs(pick.spec)[i])

\* the credential handed to Credential.validate is an unsigned one
ValidatedUnsigned ==
    /\ validated # None
    /\ validated.credential.witness \in {None, [type |-> "unsigned"]}

\* C21: Credential.validate on an unsigned credential (witness undefined)
\* checks nothing and completes without raising an error.
C21_ValidateUnsignedNoOp ==
    ValidatedUnsigned => validated.result.ok

(***************************************************************************)
(* Claims about serialization (checked under SpecJson)                     *)
(***************************************************************************)
Parsed == parsedRequest # None

WrongTypeOnWire ==
    \/ wire.json.type # parsedRequest.expectedType
    \/ /\ wire.json.type \in {"https", "zk-app"}
       /\ wire.json.inputContext.type # wire.json.type

\* C19: PresentationRequest.fromJSON(expectedType, json) fails and returns no
\* request whenever the serialized request's type differs from expectedType,
\* or an https/zk-app request's inputContext is missing or of the other type.
C19_FromJSONTypeChecked ==
    (Parsed /\ WrongTypeOnWire) =>
        /\ ~parsedRequest.result.ok
        /\ parsedRequest.result.value = None

C19_Witness ==
    /\ Parsed /\ wire.tampered = 0
    /\ original.type = "no-context"
    /\ parsedRequest.expectedType = "https"
    /\ ~parsedRequest.result.ok
    /\ parsedRequest.result.error = "Expected other request type"

Decoded == decoded # None

\* the `_type` of the serialized type or value names a registered factory
NamesRegisteredFactory(json) ==
    /\ hasProperty(json, "_type")
    /\ json._type[1] = "string"
    /\ json._type[2] \in RegisteredFactories

\* C20: deserializing a serialized type or value whose `_type` names no
\* registered factory is rejected with an error and never yields a value; a
\* value that is returned is of the factory the `_type` names.
C20_UnknownTypeRejected ==
    Decoded =>
        /\ ~NamesRegisteredFactory(decoded.json) =>
                /\ ~decoded.result.ok
                /\ decoded.result.error # ""
                /\ decoded.result.value = None
        /\ decoded.result.ok =>
                IF decoded.op = "fromJSON"
                    THEN decoded.result.value.factory = decoded.json._type[2]
                    ELSE decoded.result.value.type.factory = decoded.json._type[2]

C20_Witness ==
    /\ Decoded
    /\ decoded.op = "fromJSON"
    /\ hasProperty(decoded.json, "_type")
    /\ decoded.json._type = JsonString("NoSuchType")
    /\ hasProperty(decoded.json, "maxLength")
    /\ decoded.json.maxLength = JsonNumber("32")
    /\ decoded.result.error = "Type not registered"

(***************************************************************************)
(* Claims about the presentation lifecycle (checked under Spec)            *)
(***************************************************************************)
Bindable(req) == req.type \in {"https", "zk-app"}

\* what a context-bound request and wallet context bind a presentation to
Binding(req, walletContext) ==
    << req.type,
       req.inputContext.action,
       req.inputContext.serverNonce,
       IdentityUsed(req.type, req.inputContext, walletContext),
       req.claims,
       VkHash(req.spec) >>

\* the operation of the most recent step
LastOp == IF last = None THEN "none" ELSE last.op

Verifying == LastOp = "verify" /\ prepCall # None

\* the presentation on the wire is the one finalize or create returned
Untampered == tampered = 0

\* C1: verify(request, presentation, walletContext) succeeds only if the
\* presentation was finalized from a prepare call that used the same request
\* type, action, serverNonce, verifier identity, claims and verification-key
\* hash as the verifier uses.
C1_ContextBinding ==
    (Verifying /\ last.ok /\ Bindable(request))
        => /\ Bindable(prepCall.request)
           /\ Binding(prepCall.request, prepCall.walletContext)
                = Binding(request, last.walletContext)

C1_Witness ==
    /\ Verifying /\ last.ok
    /\ request.type = "https"
    /\ tampered = 1
    /\ request.inputContext.action = "pay"

\* C4: a presentation created for an https request with wallet verifier
\* identity V, verified against the same request with an identity V' # V,
\* fails with an invalid-context error and returns no outputClaim.
C4_HttpsInvalidContextError ==
    ( /\ Verifying /\ Untampered
      /\ request.type = "https"
      /\ request = prepCall.request
      /\ last.walletContext.verifierIdentity
            # prepCall.walletContext.verifierIdentity )
        => /\ ~last.ok
           /\ last.error = "Invalid context"
           /\ last.outputClaim = NoOutput

\* C5: a presentation created for a zk-app request does not verify when
\* verify is called with a wallet context whose verifierIdentity differs
\* from the one used at creation: verify rejects with 'Invalid context'.
C5_ZkAppInvalidContextError ==
    ( /\ Verifying /\ Untampered
      /\ request.type = "zk-app"
      /\ request = prepCall.request
      /\ last.walletContext.verifierIdentity
            # prepCall.walletContext.verifierIdentity )
        => /\ ~last.ok
           /\ last.error = "Invalid context"

\* C6: a presentation finalized for request R1 never verifies against a
\* request R2 with the same spec and claims but a different serverNonce or
\* a different action.
C6_NoReplay ==
    ( /\ Verifying
      /\ Bindable(request) /\ Bindable(prepCall.request)
      /\ request.spec = prepCall.request.spec
      /\ request.claims = prepCall.request.claims
      /\ \/ request.inputContext.serverNonce
                # prepCall.request.inputContext.serverNonce
         \/ request.inputContext.action # prepCall.request.inputContext.action )
        => ~last.ok

C6_Witness ==
    /\ Verifying /\ Untampered /\ ~last.ok
    /\ request.type = "https" /\ prepCall.request.type = "https"
    /\ request.spec = prepCall.request.spec
    /\ request.claims = prepCall.request.claims
    /\ request.inputContext.action = prepCall.request.inputContext.action
    /\ request.inputContext.serverNonce # prepCall.request.inputContext.serverNonce
    /\ last.walletContext = prepCall.walletContext
    /\ last.error = "Invalid proof"

\* every credential used is validly issued to the owner whose key signed
ValidlyIssuedTo(signer) ==
    \A name \in DOMAIN prepared.credentialsUsed :
        /\ NativeVerify(prepared.credentialsUsed[name])
        /\ prepared.credentialsUsed[name].credential.owner = signer

AssertHolds(req) ==
    AssertNode(prepared.compiledRequest.spec, req.claims, prepared.credentialsUsed)

\* C7: if the credentials resolve every credential input, each is validly
\* issued to the owner whose key signs, and the spec's assert is true, then
\* finalize (or create) yields a presentation, and verify of it with the same
\* request and wallet context succeeds and returns the spec's outputClaim
\* evaluated on those inputs.
C7_Completeness ==
    /\ ( /\ LastOp \in {"finalize", "create"}
         /\ prepared # None
         /\ ValidlyIssuedTo(last.signer)
         /\ AssertHolds(request) )
        => (last.ok /\ presentation # None)
    /\ ( /\ Verifying /\ Untampered
         /\ request = prepCall.request
         /\ last.walletContext = prepCall.walletContext )
        => /\ last.ok
           /\ last.outputClaim
                = OutputClaimNode(request.spec, request.claims,
                                  prepared.credentialsUsed)

C7_Witness ==
    /\ Verifying /\ Untampered /\ last.ok
    /\ request = prepCall.request
    /\ request.type = "https"
    /\ request.spec = "ownerOf"
    /\ request.inputContext.action = "login"
    /\ last.outputClaim = <<"PK", OwnerKey>>

\* C8: finalize/create never returns a presentation when the spec's assert is
\* false on the supplied credentials and claims: proving fails, with the
\* program's assertion error when everything else is in order, and no
\* presentation that passes verify exists for a false assertion.
C8_Soundness ==
    /\ ( /\ LastOp \in {"finalize", "create"}
         /\ prepared # None
         /\ ~AssertHolds(request) )
        => /\ ~last.ok
           /\ presentation = None
           /\ ValidlyIssuedTo(last.signer) => last.error = "Program assertion failed"
    /\ presentation # None => AssertHolds(prepCall.request)
    /\ (Verifying /\ last.ok) => AssertHolds(request)

C8_Witness ==
    /\ LastOp = "create"
    /\ prepared # None
    /\ ~AssertHolds(request)
    /\ request.spec = "ageEquals"
    /\ prepared.credentialsUsed.signedData.credential.data.age = 16
    /\ last.error = "Program assertion failed"
    /\ presentation = None

\* errors raised by the assertion that compares the claims
ClaimsErrors == {"Field.assertEquals()", "TypeError"}

\* C9: verify fails with an invalid-claims error whenever
\* presentation.claims differs from request.claims; the failure is hard:
\* verify throws and returns no outputClaim.
C9_InvalidClaimsError ==
    (Verifying /\ presentation.claims # request.claims)
        => /\ ~last.ok
           /\ last.error \in ClaimsErrors
           /\ last.outputClaim = NoOutput

\* C10: the outcome of verify does not depend on presentation.serverNonce:
\* the same call on the presentation with any other serverNonce has the
\* outcome that was observed.
C10_ServerNonceNotRead ==
    Verifying =>
        \A n \in Nonces :
            Outcome("verify",
                verifyPresentation(request,
                    [presentation EXCEPT !.serverNonce = Field(n)],
                    last.walletContext),
                last.walletContext, "") = last

C10_Witness ==
    /\ Verifying /\ last.ok
    /\ tampered = 1
    /\ presentation.serverNonce # prepared.serverNonce
    /\ presentation.serverNonce # request.inputContext.serverNonce

(***************************************************************************)
(* Claims about context derivation (checked under SpecCtx)                 *)
(***************************************************************************)
\* the six bound components of a derivation, as the derivation used them
Bound(d) ==
    << d.inputContext.serverNonce,
       d.derivedContext.clientNonce,
       IdentityUsed(d.type, d.inputContext, d.walletContext),
       hashString(d.inputContext.action),
       d.derivedContext.claims,
       d.derivedContext.vkHash >>

DiffCount(d, e) == Cardinality({ i \in 1 .. 6 : Bound(d)[i] # Bound(e)[i] })

\* C2: two https or zk-app derivations of the same request type that differ
\* in exactly one of serverNonce, clientNonce, verifierIdentity, action,
\* claims hash and vkHash yield different contexts.
C2_OneChangeChangesContext ==
    (d1 # None /\ d2 # None /\ d1.type = d2.type /\ DiffCount(d1, d2) = 1)
        => d1.context # d2.context

C2_Witness ==
    /\ d1 # None /\ d2 # None
    /\ d1.type = "zk-app" /\ d2.type = "zk-app"
    /\ DiffCount(d1, d2) = 1
    /\ d1.inputContext.verifierIdentity # d2.inputContext.verifierIdentity
    /\ d1.context # d2.context

\* C3: the derived context is
\* H("context", [H(type), vkHash, nonce, H(verifierIdentity), H(action), claimsHash])
\* with nonce = H("nonce", [serverNonce, clientNonce]), in exactly this order.
ContextFormula(d) ==
    <<"H", "mina-cred:v0:context",
        << hashString(d.type),
           d.derivedContext.vkHash,
           <<"H", "mina-cred:v0:nonce",
               <<d.inputContext.serverNonce, d.derivedContext.clientNonce>> >>,
           IdentityUsed(d.type, d.inputContext, d.walletContext),
           hashString(d.inputContext.action),
           d.derivedContext.claims >> >>

C3_ContextLayout ==
    /\ d1 # None => d1.context = ContextFormula(d1)
    /\ d2 # None => d2.context = ContextFormula(d2)

C3_Witness ==
    /\ d1 # None /\ d1.type = "https"
    /\ d2 # None /\ d2.type = "zk-app"
    /\ d1.inputContext.serverNonce # d1.derivedContext.clientNonce
    /\ d2.context = ContextFormula(d2)

====
